---- MODULE Spec2Model ----
(***************************************************************************)
(* Model of the curve / converter / interpolator core of mylib:            *)
(*   mylib/interest/rates.py, convert.py, interpolate.py, curve.py and     *)
(*   mylib/math/interp.py.                                                 *)
(*                                                                         *)
(* numpy's float64 values are modelled by exact real arithmetic over the   *)
(* numbers the program can produce from rational inputs with + - * / ** ,  *)
(* np.log and np.exp:                                                      *)
(*   - "P": an exponential polynomial  sum_i c_i * exp(v_i), c_i rational, *)
(*          v_i a vector  sum_a q_a * ln(a)  (a prime, or a = 1 standing   *)
(*          for ln(e) = 1); a rational number is the polynomial with the   *)
(*          single exponent zero;                                          *)
(*   - "L": a logarithm vector  sum_a q_a * ln(a)  that is not rational;   *)
(*   - "nan", "inf", "ninf": the IEEE-754 special values numpy returns;    *)
(*   - "unrep": a real number outside this algebra (never produced by the  *)
(*          inputs the specifications draw).                               *)
(* Rounding is not modelled: equality of two modelled numbers is equality  *)
(* of the real numbers, which the program reproduces within tolerance.     *)
(***************************************************************************)
EXTENDS Integers, Sequences, FiniteSets, TLC

(***************************************************************************)
(* Rational numbers <<n, d>>, d > 0, gcd(n, d) = 1.                        *)
(***************************************************************************)
Abs(n) == IF n < 0 THEN -n ELSE n

RECURSIVE GCD(_, _)
GCD(a, b) == IF b = 0 THEN a ELSE GCD(b, a % b)

QReduce(n, d, g) == IF d < 0 THEN <<(-n) \div g, (-d) \div g>> ELSE <<n \div g, d \div g>>

\* the rational n / d in lowest terms with a positive denominator (d # 0)
Q(n, d) == QReduce(n, d, GCD(Abs(n), Abs(d)))

QZero == <<0, 1>>
QOne == <<1, 1>>
QInt(n) == <<n, 1>>
QAdd(a, b) == Q(a[1] * b[2] + b[1] * a[2], a[2] * b[2])
QNeg(a) == <<-a[1], a[2]>>
QSub(a, b) == QAdd(a, QNeg(b))
QMul(a, b) == Q(a[1] * b[1], a[2] * b[2])
QInv(a) == Q(a[2], a[1])
QDiv(a, b) == QMul(a, QInv(b))
QLess(a, b) == a[1] * b[2] < b[1] * a[2]
QLeq(a, b) == a[1] * b[2] <= b[1] * a[2]
QSign(a) == IF a[1] > 0 THEN 1 ELSE IF a[1] < 0 THEN -1 ELSE 0
QIsInt(a) == a[2] = 1
QFloor(a) == a[1] \div a[2]

RECURSIVE IPow(_, _)
IPow(b, k) == IF k = 0 THEN 1 ELSE b * IPow(b, k - 1)

\* a rational to an integer power (a # 0 when k < 0)
QPowInt(a, k) ==
    IF k >= 0 THEN <<IPow(a[1], k), IPow(a[2], k)>>
    ELSE Q(IPow(a[2], -k), IPow(a[1], -k))

(***************************************************************************)
(* Logarithm vectors: sets of <<atom, coefficient>>, coefficient # 0.      *)
(* The vector {<<2, 3/2>>, <<1, -1>>} is (3/2) ln 2 - 1.                   *)
(***************************************************************************)
VAtoms(v) == {p[1] : p \in v}
VCoef(v, a) == IF \E p \in v : p[1] = a THEN (CHOOSE p \in v : p[1] = a)[2] ELSE QZero
VAdd(u, v) ==
    {<<a, QAdd(VCoef(u, a), VCoef(v, a))>> :
        a \in {b \in VAtoms(u) \cup VAtoms(v) : QAdd(VCoef(u, b), VCoef(v, b)) # QZero}}
VScale(r, v) == IF r = QZero THEN {} ELSE {<<p[1], QMul(r, p[2])>> : p \in v}
VNeg(v) == VScale(QInt(-1), v)

RECURSIVE FactorFrom(_, _)
\* prime factorisation of the integer n >= 1, trial division from p
FactorFrom(n, p) ==
    IF n = 1 THEN {}
    ELSE IF p * p > n THEN {<<n, QOne>>}
    ELSE IF n % p = 0 THEN VAdd({<<p, QOne>>}, FactorFrom(n \div p, p))
    ELSE FactorFrom(n, p + 1)

\* ln of the positive rational a, as a vector over the primes
QLog(a) == VAdd(FactorFrom(a[1], 2), VNeg(FactorFrom(a[2], 2)))

\* sign of the real number a vector denotes: 1, -1, 0, or 2 when the model
\* cannot decide it (coefficients of both signs over more than two atoms)
VSign(v) ==
    IF v = {} THEN 0
    ELSE IF \A p \in v : p[2][1] > 0 THEN 1
    ELSE IF \A p \in v : p[2][1] < 0 THEN -1
    ELSE 2

(***************************************************************************)
(* Exponential polynomials: sets of <<coefficient, exponent vector>> with  *)
(* distinct exponents and coefficients # 0.  An exponent is kept          *)
(* canonical: the integer part of a prime's exponent is moved into the     *)
(* coefficient (2^(3/2) = 2 * 2^(1/2)).                                    *)
(***************************************************************************)
RECURSIVE CarryOf(_)
\* the rational  prod_p p^floor(q_p)  over the prime atoms of v
CarryOf(v) ==
    IF v = {} THEN QOne
    ELSE LET p == CHOOSE x \in v : TRUE
             r == CarryOf(v \ {p})
         IN  IF p[1] = 1 THEN r ELSE QMul(QPowInt(QInt(p[1]), QFloor(p[2])), r)

FracOf(v) ==
    {<<p[1], IF p[1] = 1 THEN p[2] ELSE QSub(p[2], QInt(QFloor(p[2])))>> :
        p \in {x \in v : x[1] = 1 \/ ~QIsInt(x[2])}}

\* the canonical term for c * exp(v)
Mono(c, v) == <<QMul(c, CarryOf(v)), FracOf(v)>>

PExps(P) == {t[2] : t \in P}
PCoef(P, v) == IF \E t \in P : t[2] = v THEN (CHOOSE t \in P : t[2] = v)[1] ELSE QZero
PAdd(P, R) ==
    {<<QAdd(PCoef(P, v), PCoef(R, v)), v>> :
        v \in {w \in PExps(P) \cup PExps(R) : QAdd(PCoef(P, w), PCoef(R, w)) # QZero}}
PScale(r, P) == IF r = QZero THEN {} ELSE {<<QMul(r, t[1]), t[2]>> : t \in P}
\* the term t times the polynomial R
PMulTerm(t, R) == {Mono(QMul(t[1], u[1]), VAdd(t[2], u[2])) : u \in R}

RECURSIVE PMul(_, _)
PMulRest(t, P, R) == PAdd(PMulTerm(t, R), PMul(P \ {t}, R))
PMul(P, R) == IF P = {} THEN {} ELSE PMulRest(CHOOSE t \in P : TRUE, P, R)

(***************************************************************************)
(* Numbers.                                                                *)
(***************************************************************************)
Poly(P) == [k |-> "P", p |-> P, v |-> {}]
Rat(r) == Poly(IF r = QZero THEN {} ELSE {<<r, {}>>})
Num(n) == Rat(QInt(n))
Frac(n, d) == Rat(Q(n, d))
NaN == [k |-> "nan", p |-> {}, v |-> {}]
Inf == [k |-> "inf", p |-> {}, v |-> {}]
NInf == [k |-> "ninf", p |-> {}, v |-> {}]
Unrep == [k |-> "unrep", p |-> {}, v |-> {}]

IsRat(x) == x.k = "P" /\ \A t \in x.p : t[2] = {}
RatOf(x) == IF x.p = {} THEN QZero ELSE (CHOOSE t \in x.p : TRUE)[1]
IsMono(x) == x.k = "P" /\ Cardinality(x.p) = 1
MonoOf(x) == CHOOSE t \in x.p : TRUE
IsLin(x) == x.k = "L" \/ IsRat(x)
IsFinite(x) == x.k \in {"P", "L"}
\* the number a vector denotes
Lin(v) == IF VAtoms(v) \subseteq {1} THEN Rat(VCoef(v, 1)) ELSE [k |-> "L", p |-> {}, v |-> v]
VecOf(x) == IF x.k = "L" THEN x.v ELSE IF x.p = {} THEN {} ELSE {<<1, RatOf(x)>>}

\* 1, -1, 0, or 2 (undecided by the model) for a finite number
Sign(x) ==
    IF IsRat(x) THEN QSign(RatOf(x))
    ELSE IF x.k = "L" THEN
        (IF VAtoms(x.v) \cap {1} = {} THEN VSign(x.v)
         ELSE IF VSign(x.v) \in {1, -1} THEN VSign(x.v) ELSE 2)
    ELSE IF IsMono(x) THEN QSign(MonoOf(x)[1])
    ELSE IF \A t \in x.p : t[1][1] > 0 THEN 1
    ELSE IF \A t \in x.p : t[1][1] < 0 THEN -1
    ELSE 2

Neg(x) ==
    CASE x.k = "P" -> Poly(PScale(QInt(-1), x.p))
      [] x.k = "L" -> Lin(VNeg(x.v))
      [] x.k = "inf" -> NInf
      [] x.k = "ninf" -> Inf
      [] OTHER -> x

Add(x, y) ==
    CASE x.k = "unrep" \/ y.k = "unrep" -> Unrep
      [] x.k = "nan" \/ y.k = "nan" -> NaN
      [] x.k \in {"inf", "ninf"} ->
            IF y.k \in {"inf", "ninf"} /\ y.k # x.k THEN NaN ELSE x
      [] y.k \in {"inf", "ninf"} -> y
      [] IsRat(x) /\ IsRat(y) -> Rat(QAdd(RatOf(x), RatOf(y)))
      [] x.k = "P" /\ y.k = "P" -> Poly(PAdd(x.p, y.p))
      [] IsLin(x) /\ IsLin(y) -> Lin(VAdd(VecOf(x), VecOf(y)))
      [] OTHER -> Unrep

Sub(x, y) == Add(x, Neg(y))

\* Sign extended to the infinities
SignExt(x) == IF x.k = "inf" THEN 1 ELSE IF x.k = "ninf" THEN -1 ELSE Sign(x)

\* the infinity of the sign sx * sy; nan when a sign is 0
InfOfSigns(sx, sy) ==
    IF sx = 0 \/ sy = 0 THEN NaN
    ELSE IF sx = 2 \/ sy = 2 THEN Unrep
    ELSE IF sx * sy > 0 THEN Inf ELSE NInf

Mul(x, y) ==
    CASE x.k = "unrep" \/ y.k = "unrep" -> Unrep
      [] x.k = "nan" \/ y.k = "nan" -> NaN
      [] x.k \in {"inf", "ninf"} \/ y.k \in {"inf", "ninf"} ->
            InfOfSigns(SignExt(x), SignExt(y))
      [] IsRat(x) /\ IsRat(y) -> Rat(QMul(RatOf(x), RatOf(y)))
      [] x.k = "P" /\ y.k = "P" -> Poly(PMul(x.p, y.p))
      [] x.k = "L" /\ IsRat(y) -> Lin(VScale(RatOf(y), x.v))
      [] IsRat(x) /\ y.k = "L" -> Lin(VScale(RatOf(x), y.v))
      [] OTHER -> Unrep

\* 1 / y for a finite y # 0
RecipTerm(t) == Poly({Mono(QInv(t[1]), VNeg(t[2]))})
Recip(y) == IF IsMono(y) THEN RecipTerm(MonoOf(y)) ELSE Unrep

Div(x, y) ==
    CASE x.k = "unrep" \/ y.k = "unrep" -> Unrep
      [] x.k = "nan" \/ y.k = "nan" -> NaN
      [] y.k \in {"inf", "ninf"} ->
            IF x.k \in {"inf", "ninf"} THEN NaN ELSE Rat(QZero)
      [] y.k = "P" /\ y.p = {} -> InfOfSigns(SignExt(x), 1)
      [] x.k \in {"inf", "ninf"} -> InfOfSigns(SignExt(x), Sign(y))
      [] OTHER -> Mul(x, Recip(y))

LogTerm(t) == IF t[1][1] < 0 THEN NaN ELSE Lin(VAdd(QLog(t[1]), t[2]))

\* np.log
Log(x) ==
    CASE x.k \in {"unrep", "nan", "inf"} -> x
      [] x.k = "ninf" -> NaN
      [] x.k = "P" /\ x.p = {} -> NInf
      [] IsMono(x) -> LogTerm(MonoOf(x))
      [] OTHER -> Unrep

\* np.exp
Exp(x) ==
    CASE x.k \in {"unrep", "nan", "inf"} -> x
      [] x.k = "ninf" -> Rat(QZero)
      [] IsLin(x) -> Poly({Mono(QOne, VecOf(x))})
      [] OTHER -> Unrep

\* x ** y for a rational exponent y; x ** 0 and 1 ** y are 1 whatever x and y
Pow(x, y) ==
    CASE x.k = "unrep" \/ y.k = "unrep" -> Unrep
      [] y = Num(0) \/ x = Num(1) -> Num(1)
      [] x.k = "nan" \/ y.k = "nan" -> NaN
      [] ~IsRat(y) -> Unrep
      [] x.k = "inf" -> IF QSign(RatOf(y)) > 0 THEN Inf ELSE Rat(QZero)
      [] x.k = "ninf" -> Unrep
      [] x.k = "P" /\ x.p = {} -> IF QSign(RatOf(y)) > 0 THEN Rat(QZero) ELSE Inf
      [] IsRat(x) /\ QIsInt(RatOf(y)) -> Rat(QPowInt(RatOf(x), RatOf(y)[1]))
      [] IsMono(x) ->
            IF MonoOf(x)[1][1] < 0 THEN NaN ELSE Exp(Mul(y, Log(x)))
      [] OTHER -> Unrep

\* a number of the sign of x - y, for finite x and y: two positive one-term
\* numbers are compared by their logarithms
Difference(x, y) ==
    IF IsMono(x) /\ IsMono(y) /\ MonoOf(x)[1][1] > 0 /\ MonoOf(y)[1][1] > 0
    THEN Sub(Log(x), Log(y))
    ELSE Sub(x, y)

\* x < y as numpy evaluates it (FALSE when either side is nan)
Less(x, y) ==
    CASE x.k = "nan" \/ y.k = "nan" -> FALSE
      [] x.k = "inf" -> FALSE
      [] y.k = "ninf" -> FALSE
      [] x.k = "ninf" \/ y.k = "inf" -> TRUE
      [] IsRat(x) /\ IsRat(y) -> QLess(RatOf(x), RatOf(y))
      [] OTHER -> Sign(Difference(x, y)) = -1

\* the model decides x < y
Comparable(x, y) ==
    \/ ~IsFinite(x) \/ ~IsFinite(y)
    \/ IsRat(x) /\ IsRat(y)
    \/ Sign(Difference(x, y)) # 2

(***************************************************************************)
(* Python values: a number (np.float64), an array of numbers (np.ndarray,  *)
(* one-dimensional), or a raised exception.  numpy arithmetic never        *)
(* raises on division by zero or a domain error: it returns inf or nan.    *)
(***************************************************************************)
None == [k |-> "None"]
Exc(e) == [k |-> "exc", e |-> e]
Arr(s) == [k |-> "arr", a |-> s]
IsExc(x) == x.k = "exc"
IsArr(x) == x.k = "arr"
IsNum(x) == x.k \in {"P", "L", "nan", "inf", "ninf", "unrep"}

\* a unary numpy ufunc
Lift1(F(_), x) ==
    IF IsExc(x) THEN x
    ELSE IF IsArr(x) THEN Arr([i \in 1..Len(x.a) |-> F(x.a[i])])
    ELSE F(x)

\* a binary numpy ufunc with broadcasting; shapes that do not broadcast raise
Lift2(F(_, _), x, y) ==
    IF IsExc(x) THEN x
    ELSE IF IsExc(y) THEN y
    ELSE IF IsArr(x) /\ IsArr(y) THEN
        (IF Len(x.a) = Len(y.a) THEN Arr([i \in 1..Len(x.a) |-> F(x.a[i], y.a[i])])
         ELSE IF Len(x.a) = 1 THEN Arr([i \in 1..Len(y.a) |-> F(x.a[1], y.a[i])])
         ELSE IF Len(y.a) = 1 THEN Arr([i \in 1..Len(x.a) |-> F(x.a[i], y.a[1])])
         ELSE Exc("ValueError"))
    ELSE IF IsArr(x) THEN Arr([i \in 1..Len(x.a) |-> F(x.a[i], y)])
    ELSE IF IsArr(y) THEN Arr([i \in 1..Len(y.a) |-> F(x, y.a[i])])
    ELSE F(x, y)

NpNeg(x) == Lift1(Neg, x)
NpLog(x) == Lift1(Log, x)
NpExp(x) == Lift1(Exp, x)
NpAdd(x, y) == Lift2(Add, x, y)
NpSub(x, y) == Lift2(Sub, x, y)
NpMul(x, y) == Lift2(Mul, x, y)
NpDiv(x, y) == Lift2(Div, x, y)
NpPow(x, y) == Lift2(Pow, x, y)

\* np.maximum / np.minimum of two numbers (nan propagates)
Maximum(x, y) == IF x.k = "nan" THEN x ELSE IF y.k = "nan" THEN y ELSE IF Less(x, y) THEN y ELSE x
Minimum(x, y) == IF x.k = "nan" THEN x ELSE IF y.k = "nan" THEN y ELSE IF Less(y, x) THEN y ELSE x
NpMaximum(x, y) == Lift2(Maximum, x, y)
NpMinimum(x, y) == Lift2(Minimum, x, y)

RECURSIVE SeqFold(_, _, _)
\* F(s[1], F(s[2], ... F(s[n], z)))
SeqFold(F(_, _), s, z) == IF s = <<>> THEN z ELSE F(Head(s), SeqFold(F, Tail(s), z))

\* np.min / np.max of a non-empty array; an empty array raises
NpMin(x) == IF x.a = <<>> THEN Exc("ValueError") ELSE SeqFold(Minimum, Tail(x.a), Head(x.a))
NpMax(x) == IF x.a = <<>> THEN Exc("ValueError") ELSE SeqFold(Maximum, Tail(x.a), Head(x.a))

(***************************************************************************)
(* mylib/interest/rates.py                                                 *)
(***************************************************************************)
CONTINUOUS == -1
SIMPLE == 0
ANNUAL == 1
SEMIANNUAL == 2
QUARTERLY == 4
MONTHLY == 12
Compound == {CONTINUOUS, SIMPLE, ANNUAL, SEMIANNUAL, QUARTERLY, MONTHLY}

\* an if-chain without the two sentinel tests: every member of Compound takes
\* the periodic formula
RateBranch_members(comp) ==
    IF comp \in Compound THEN "periodic"
    ELSE "raise"

\* the branch of the if-chain shared by implied_rate and capitalization
\* that a compounding key takes
RateBranch(comp) ==
    IF comp = CONTINUOUS THEN "continuous"
    ELSE IF comp = SIMPLE THEN "simple"
    ELSE IF comp \in Compound THEN "periodic"
    ELSE "raise"

\* the formula a call evaluates, if any
RateSteps(comp) == IF RateBranch(comp) = "raise" THEN <<>> ELSE <<RateBranch(comp)>>

implied_rate(t, df, comp) ==
    CASE RateBranch(comp) = "continuous" -> NpDiv(NpNeg(NpLog(df)), t)
      [] RateBranch(comp) = "simple" -> NpDiv(NpSub(NpDiv(Num(1), df), Num(1)), t)
      [] RateBranch(comp) = "periodic" ->
            NpMul(NpSub(NpPow(df, NpDiv(Num(-1), NpMul(t, Num(comp)))), Num(1)), Num(comp))
      [] OTHER -> Exc("ValueError")

\* capitalization without the branch for simple compounding: the key 0 falls
\* through to the continuous formula
capitalization_no_simple(t, r, comp) ==
    CASE RateBranch(comp) \in {"continuous", "simple"} -> NpExp(NpMul(r, t))
      [] RateBranch(comp) = "periodic" ->
            NpPow(NpAdd(Num(1), NpDiv(r, Num(comp))), NpMul(t, Num(comp)))
      [] OTHER -> Exc("ValueError")

capitalization(t, r, comp) ==
    CASE RateBranch(comp) = "continuous" -> NpExp(NpMul(r, t))
      [] RateBranch(comp) = "simple" -> NpAdd(Num(1), NpMul(r, t))
      [] RateBranch(comp) = "periodic" ->
            NpPow(NpAdd(Num(1), NpDiv(r, Num(comp))), NpMul(t, Num(comp)))
      [] OTHER -> Exc("ValueError")

discount_factor(t, r, comp) == NpDiv(Num(1), capitalization(t, r, comp))

\* a call discount_factor(t, r[, comp]): comp defaults to Compound.CONTINUOUS;
\* opt is <<>> when the caller leaves comp out, <<comp>> otherwise
discount_factor_call(t, r, opt) ==
    discount_factor(t, r, IF opt = <<>> THEN CONTINUOUS ELSE opt[1])

(***************************************************************************)
(* mylib/interest/convert.py                                               *)
(***************************************************************************)
IDENTITY == 0
LOGARITHMIC == 1
ZERO_RATES == 2
INVERSION == 3
RATE_TIME == 4
ConversionType == {IDENTITY, LOGARITHMIC, ZERO_RATES, INVERSION, RATE_TIME}

\* ConverterFactory.FACTORY
ConverterFACTORY ==
    [m \in ConversionType |->
        CASE m = IDENTITY -> "IdentityConverter"
          [] m = LOGARITHMIC -> "LogConverter"
          [] m = ZERO_RATES -> "ZeroRatesConverter"
          [] m = INVERSION -> "InversionConverter"
          [] m = RATE_TIME -> "RateTimeConverter"]

Cls(n) == [k |-> "cls", n |-> n]

\* a factory that falls back to the identity converter for a key it does not know
ConverterFactory_get_default(method) ==
    IF method \in DOMAIN ConverterFACTORY THEN Cls(ConverterFACTORY[method])
    ELSE Cls("IdentityConverter")

ConverterFactory_get(method) ==
    IF method \in DOMAIN ConverterFACTORY THEN Cls(ConverterFACTORY[method]) ELSE Exc("KeyError")

convert(cls, t, x) ==
    CASE cls = "IdentityConverter" -> x
      [] cls = "LogConverter" -> NpLog(x)
      [] cls = "ZeroRatesConverter" -> implied_rate(t, x, CONTINUOUS)
      [] cls = "InversionConverter" -> NpDiv(Num(1), x)
      [] cls = "RateTimeConverter" -> NpNeg(NpLog(x))

\* revert whose rate-time branch forgets the sign
revert_unsigned(cls, t, y) ==
    CASE cls = "IdentityConverter" -> y
      [] cls = "LogConverter" -> NpExp(y)
      [] cls = "ZeroRatesConverter" -> discount_factor(t, y, CONTINUOUS)
      [] cls = "InversionConverter" -> NpDiv(Num(1), y)
      [] cls = "RateTimeConverter" -> NpExp(y)

revert(cls, t, y) ==
    CASE cls = "IdentityConverter" -> y
      [] cls = "LogConverter" -> NpExp(y)
      [] cls = "ZeroRatesConverter" -> discount_factor(t, y, CONTINUOUS)
      [] cls = "InversionConverter" -> NpDiv(Num(1), y)
      [] cls = "RateTimeConverter" -> NpExp(NpNeg(y))

\* np.isclose(a, b) for numbers: equal reals are close; nan is close to nothing
IsClose(a, b) == IF IsFinite(a) /\ IsFinite(b) THEN a = b ELSE a.k = b.k /\ a.k \in {"inf", "ninf"}

NpIsClose(a, b) == Lift2(IsClose, a, b)

is_correct(cls, t, x) == NpIsClose(x, revert(cls, t, convert(cls, t, x)))

(***************************************************************************)
(* mylib/math/interp.py                                                    *)
(***************************************************************************)
LINEAR == 0
CUBIC_SPLINE == 1
InterpolationType == {LINEAR, CUBIC_SPLINE}

RECURSIVE LinearSearch(_, _, _)
\* numpy's linear_search(key, arr, len, i0): the last index before the first
\* i >= i0 with key < arr[i] (indices from 1 here)
LinearSearch(key, arr, i) ==
    IF i <= Len(arr) /\ ~Less(key, arr[i]) THEN LinearSearch(key, arr, i + 1) ELSE i - 1

\* the value on segment j: the forward formula, then numpy's fall-backs when
\* it is nan
Interp1Value(fp, j, fwd, bwd) ==
    IF fwd.k # "nan" THEN fwd
    ELSE IF bwd.k # "nan" THEN bwd
    ELSE IF fp[j] = fp[j + 1] THEN fp[j]
    ELSE bwd

Interp1Slope(q, xp, fp, j, slope) ==
    Interp1Value(fp, j, Add(Mul(slope, Sub(q, xp[j])), fp[j]),
                 Add(Mul(slope, Sub(q, xp[j + 1])), fp[j + 1]))

\* np.interp for one query value: flat outside [xp[first], xp[last]], the
\* sample itself at a sample point, the chord between two samples otherwise.
\* numpy searches arrays of more than 4 points by bisection from a guess; on
\* increasing xp it finds the index the linear search finds.
Interp1At(q, xp, fp, n, j) ==
    IF n = 1 THEN (IF Less(q, xp[1]) THEN fp[1] ELSE fp[n])
    ELSE IF q.k = "nan" THEN q
    ELSE IF Less(xp[n], q) THEN fp[n]
    ELSE IF Less(q, xp[1]) THEN fp[1]
    ELSE IF j = n THEN fp[j]
    ELSE IF xp[j] = q THEN fp[j]
    ELSE Interp1Slope(q, xp, fp, j, Div(Sub(fp[j + 1], fp[j]), Sub(xp[j + 1], xp[j])))

Interp1(q, xp, fp) == Interp1At(q, xp, fp, Len(xp), LinearSearch(q, xp, 2))

\* np.interp(x, xp, fp): no check that xp increases
NpInterp(q, xp, fp) ==
    IF IsExc(q) THEN q
    ELSE IF Len(xp.a) = 0 THEN Exc("ValueError")
    ELSE IF Len(xp.a) # Len(fp.a) THEN Exc("ValueError")
    ELSE Lift1(LAMBDA e : Interp1(e, xp.a, fp.a), q)

StrictlyIncreasing(s) == \A i \in 1..(Len(s) - 1) : Less(s[i], s[i + 1])

RECURSIVE GaussJordan(_, _, _)
\* row r, normalised (rowc, bc), becomes row c; sw exchanges rows c and r
GaussJordanStep(A, b, c, n, rowc, bc, sw) ==
    GaussJordan(
        [i \in 1..n |->
            IF i = c THEN rowc
            ELSE [j \in 1..n |-> QSub(A[sw[i]][j], QMul(A[sw[i]][c], rowc[j]))]],
        [i \in 1..n |->
            IF i = c THEN bc ELSE Sub(b[sw[i]], Mul(Rat(A[sw[i]][c]), bc))],
        c + 1)

GaussJordanPivot(A, b, c, n, r) ==
    GaussJordanStep(A, b, c, n,
        [j \in 1..n |-> QDiv(A[r][j], A[r][c])],
        Mul(b[r], Rat(QInv(A[r][c]))),
        [i \in 1..n |-> IF i = c THEN r ELSE IF i = r THEN c ELSE i])

\* the solution of A z = b, A a non-singular matrix of rationals, b numbers
GaussJordan(A, b, c) ==
    IF c > Len(b) THEN b
    ELSE GaussJordanPivot(A, b, c, Len(b), CHOOSE i \in c..Len(b) : A[i][c] # QZero)

\* h[i] = x[i+1] - x[i], the lengths of the segments
SplineSteps(x) == [i \in 1..(Len(x) - 1) |-> RatOf(Sub(x[i + 1], x[i]))]

\* d[i] = (y[i+1] - y[i]) / h[i], the slopes of the chords
SplineSlopes(h, y) == [i \in 1..Len(h) |-> Mul(Sub(y[i + 1], y[i]), Rat(QInv(h[i])))]

\* the not-a-knot conditions in rows 1 and n, continuity of the first
\* derivative in the rows between
SplineMatrix(h, n) ==
    [i \in 1..n |-> [j \in 1..n |->
        IF i = 1 THEN
            (IF j = 1 THEN h[2] ELSE IF j = 2 THEN QNeg(QAdd(h[1], h[2]))
             ELSE IF j = 3 THEN h[1] ELSE QZero)
        ELSE IF i = n THEN
            (IF j = n - 2 THEN h[n - 1] ELSE IF j = n - 1 THEN QNeg(QAdd(h[n - 2], h[n - 1]))
             ELSE IF j = n THEN h[n - 2] ELSE QZero)
        ELSE
            (IF j = i - 1 THEN h[i - 1]
             ELSE IF j = i THEN QMul(QInt(2), QAdd(h[i - 1], h[i]))
             ELSE IF j = i + 1 THEN h[i] ELSE QZero)]]

SplineRhs(d, n) ==
    [i \in 1..n |-> IF i = 1 \/ i = n THEN Num(0) ELSE Mul(Num(6), Sub(d[i], d[i - 1]))]

SplineSolve(h, y) ==
    GaussJordan(SplineMatrix(h, Len(y)), SplineRhs(SplineSlopes(h, y), Len(y)), 1)

\* The second derivatives at the samples of the cubic spline that
\* interpolates (x, y) with no smoothing (s = 0) and no break at the second
\* and the last-but-one sample: FITPACK's knots for s = 0, k = 3 are x[2:-2].
SplineMoments(x, y) == SplineSolve(SplineSteps(x), y)

\* scipy.interpolate.splrep(x, y, s=0), degree k = 3
splrep(x, y) ==
    IF Len(x.a) # Len(y.a) THEN Exc("TypeError")
    ELSE IF Len(x.a) <= 3 THEN Exc("TypeError")
    ELSE IF ~StrictlyIncreasing(x.a) THEN Exc("ValueError")
    ELSE [k |-> "tck", t |-> x.a, c |-> y.a, m |-> SplineMoments(x.a, y.a)]

\* the cubic of segment i at q, with h the segment's length, a and b the
\* distances of q to its two ends
SplevSegment(q, tck, i, h, a, b) ==
    IF q.k = "nan" THEN q
    ELSE Add(Add(Mul(tck.m[i], Div(Mul(a, Mul(a, a)), Mul(Num(6), h))),
                 Mul(tck.m[i + 1], Div(Mul(b, Mul(b, b)), Mul(Num(6), h)))),
             Add(Mul(Sub(Div(tck.c[i], h), Div(Mul(tck.m[i], h), Num(6))), a),
                 Mul(Sub(Div(tck.c[i + 1], h), Div(Mul(tck.m[i + 1], h), Num(6))), b)))

SplevAt(q, tck, i) ==
    SplevSegment(q, tck, i, Sub(tck.t[i + 1], tck.t[i]), Sub(tck.t[i + 1], q),
                 Sub(q, tck.t[i]))

Clip(j, lo, hi) == IF j < lo THEN lo ELSE IF j > hi THEN hi ELSE j

\* the spline at one query value; beyond the end samples the end
\* polynomials are continued (ext = 0)
Splev1(q, tck) == SplevAt(q, tck, Clip(LinearSearch(q, tck.t, 2), 1, Len(tck.t) - 1))

\* scipy.interpolate.splev(x, tck, der=0)
splev(q, tck) == Lift1(LAMBDA e : Splev1(e, tck), q)

\* Interpolator.__init__ (dataclass): the fields hold the argument objects
Interpolator_init(cls, x, y) == [k |-> "obj", cls |-> cls, x |-> x, y |-> y, tck |-> None]

LinearInterpolator_init(heap, x, y) == Interpolator_init("LinearInterpolator", x, y)

CubicSplineInterpolator_fit(x, y, tck) ==
    IF IsExc(tck) THEN tck
    ELSE [Interpolator_init("CubicSplineInterpolator", x, y) EXCEPT !.tck = tck]

CubicSplineInterpolator_init(heap, x, y) ==
    CubicSplineInterpolator_fit(x, y, splrep(heap[x], heap[y]))

LinearInterpolator_call(self, heap, x) == NpInterp(x, heap[self.x], heap[self.y])

CubicSplineInterpolator_call(self, heap, x) == splev(x, self.tck)

Interpolator_call(self, heap, x) ==
    IF self.cls = "LinearInterpolator" THEN LinearInterpolator_call(self, heap, x)
    ELSE CubicSplineInterpolator_call(self, heap, x)

\* an interpolator that keeps the value it returned last in the first sample
\* of self.y
Interpolator_call_heap_cached(self, heap, x) ==
    [heap EXCEPT ![self.y] =
        Arr([@.a EXCEPT ![1] = IF IsArr(x) THEN Interpolator_call(self, heap, x).a[1]
                                 ELSE Interpolator_call(self, heap, x)])]

\* the array objects after interpolator(x): np.interp and splev return new
\* arrays and write none of their arguments
Interpolator_call_heap(self, heap, x) == heap

\* SplineInterpolator.__init__: the dataclass fields, then
\* self.params = np.array(self.fit(x, y)).  fit is the subclass's: theta is what
\* it returns, one row of four coefficients per segment
SplineInterpolator_init(x, y, theta) ==
    [k |-> "obj", cls |-> "SplineInterpolator", x |-> x, y |-> y, params |-> theta]

\* v >= val as numpy evaluates it (FALSE when either side is nan)
GreaterEqual(v, val) == v.k # "nan" /\ val.k # "nan" /\ ~Less(v, val)

RECURSIVE SplineInterpolator_index_next(_, _, _)
\* next(x for x, v in enumerate(self.x) if v >= val), scanning from position i;
\* indices count from 0 as in the source, and len(self.x) stands for the
\* exhausted generator (StopIteration)
SplineInterpolator_index_next(xs, val, i) ==
    IF i > Len(xs) THEN Len(xs)
    ELSE IF GreaterEqual(xs[i], val) THEN i - 1
    ELSE SplineInterpolator_index_next(xs, val, i + 1)

\* an index that scans for the query itself, not for min(query, last knot)
SplineInterpolator_index_found_unclamped(xs, val) ==
    SplineInterpolator_index_next(xs, val, 1)

\* the knot found for one element of t = np.minimum(t, self.x[-1])
SplineInterpolator_index_found(xs, val) ==
    SplineInterpolator_index_next(xs, Minimum(val, xs[Len(xs)]), 1)

\* np.maximum(idx, 0) of idx[i] = next(...) - 1, as a list of integers
SplineInterpolator_index_list(xs, t) ==
    [i \in 1..Len(t) |->
        IF SplineInterpolator_index_found(xs, t[i]) = 0 THEN 0
        ELSE SplineInterpolator_index_found(xs, t[i]) - 1]

\* SplineInterpolator.index: len(t) of a number raises TypeError, self.x[-1] of
\* an empty array IndexError, an exhausted generator StopIteration
SplineInterpolator_index(self, heap, t) ==
    IF ~IsArr(t) THEN Exc("TypeError")
    ELSE IF heap[self.x].a = <<>> THEN Exc("IndexError")
    ELSE IF \E i \in 1..Len(t.a) :
                SplineInterpolator_index_found(heap[self.x].a, t.a[i]) = Len(heap[self.x].a)
         THEN Exc("StopIteration")
    ELSE Arr([i \in 1..Len(t.a) |->
                Num(SplineInterpolator_index_list(heap[self.x].a, t.a)[i])])

\* SplineInterpolator.powers: one row [1, dx, dx^2, dx^3] per element of dx
SplineInterpolator_powers(dx) ==
    [i \in 1..Len(dx.a) |->
        <<Num(1), dx.a[i], Pow(dx.a[i], Num(2)), Pow(dx.a[i], Num(3))>>]

\* np.multiply(theta, xx).sum(axis=1), one row
SplineInterpolator_call_row(theta, xx) ==
    Add(Add(Add(Mul(theta[1], xx[1]), Mul(theta[2], xx[2])), Mul(theta[3], xx[3])),
        Mul(theta[4], xx[4]))

\* a spline evaluated at the distance of the clamped query from the knot
SplineInterpolator_call_dx_clamped(xs, x, idx) ==
    Arr([i \in 1..Len(x) |-> Sub(Minimum(x[i], xs[Len(xs)]), xs[idx[i] + 1])])

\* x - self.x[idx]
SplineInterpolator_call_dx(xs, x, idx) ==
    Arr([i \in 1..Len(x) |-> Sub(x[i], xs[idx[i] + 1])])

\* SplineInterpolator.__call__ once idx is known: self.params[idx] raises
\* IndexError when a row is missing; the result holds idx and the value
SplineInterpolator_call_idx(self, heap, x, idx) ==
    IF \E i \in 1..Len(idx) : idx[i] + 1 > Len(self.params)
    THEN [idx |-> idx, ret |-> Exc("IndexError")]
    ELSE [idx |-> idx,
          ret |-> Arr([i \in 1..Len(idx) |->
                    SplineInterpolator_call_row(self.params[idx[i] + 1],
                        SplineInterpolator_powers(
                            SplineInterpolator_call_dx(heap[self.x].a, x.a, idx))[i])])]

\* SplineInterpolator.__call__
SplineInterpolator_call(self, heap, x) ==
    IF IsExc(SplineInterpolator_index(self, heap, x))
    THEN [idx |-> <<>>, ret |-> SplineInterpolator_index(self, heap, x)]
    ELSE SplineInterpolator_call_idx(self, heap, x,
            SplineInterpolator_index_list(heap[self.x].a, x.a))

\* InterpolatorFactory.FACTORY
InterpolatorFACTORY ==
    [m \in InterpolationType |->
        IF m = LINEAR THEN "LinearInterpolator" ELSE "CubicSplineInterpolator"]

\* InterpolatorFactory.get(x, y, method); x and y name arrays of the heap
InterpolatorFactory_get(heap, x, y, method) ==
    IF method \notin DOMAIN InterpolatorFACTORY THEN Exc("KeyError")
    ELSE IF InterpolatorFACTORY[method] = "LinearInterpolator"
        THEN LinearInterpolator_init(heap, x, y)
    ELSE CubicSplineInterpolator_init(heap, x, y)

\* the steps of InterpolatorFactory.get: the lookup, then the constructor of
\* the class found, which fits the interpolator
InterpolatorFactory_steps(method) ==
    <<"InterpolatorFactory.get">>
        \o (IF method \in DOMAIN InterpolatorFACTORY THEN <<"fit">> ELSE <<>>)

(***************************************************************************)
(* mylib/interest/interpolate.py                                           *)
(*                                                                         *)
(* Arrays are objects: `heap` maps the names of the array objects of a run *)
(* ("maturity" and "discount", the caller's arguments, and "conv", the     *)
(* array a converter creates) to their contents, and an object's field     *)
(* holds the name of the array it refers to.                               *)
(* A constructor yields [exc, self, heap, trace]: the exception it raised  *)
(* (or None), the object with the fields assigned so far, the heap, and    *)
(* the lookups and numeric steps it went through, in order.                *)
(***************************************************************************)
EmptyHeap == [maturity |-> None, discount |-> None, conv |-> None]
\* a field no object has been assigned to, and the absence of an exception
Null == "null"
NoExc == "none"

\* the array object Converter.convert returns: IdentityConverter returns its
\* argument itself, every other converter a new array
ConvertTarget(cls, df) == IF cls = "IdentityConverter" THEN df ELSE "conv"

\* self.interp_ = InterpolatorFactory.get(...): the interpolator, or its exception
InterestRateCurveInterpolator_init_interp(self1, heap1, interp_type, interp) ==
    IF IsExc(interp) THEN
        [exc |-> interp.e, self |-> self1, heap |-> heap1,
         trace |-> <<"ConverterFactory.get", "convert">>
                    \o InterpolatorFactory_steps(interp_type)]
    ELSE
        [exc |-> NoExc, self |-> [self1 EXCEPT !.interp_ = interp], heap |-> heap1,
         trace |-> <<"ConverterFactory.get", "convert">>
                    \o InterpolatorFactory_steps(interp_type)]

\* the converted values y are the argument of InterpolatorFactory.get
InterestRateCurveInterpolator_init_fit(self1, heap1, t, yref, interp_type) ==
    InterestRateCurveInterpolator_init_interp(self1, heap1, interp_type,
        InterpolatorFactory_get(heap1, t, yref, interp_type))

InterestRateCurveInterpolator_init_convert(self1, heap, t, df, interp_type, y) ==
    IF IsExc(y) THEN
        [exc |-> y.e, self |-> self1, heap |-> heap,
         trace |-> <<"ConverterFactory.get", "convert">>]
    ELSE
        InterestRateCurveInterpolator_init_fit(self1,
            IF ConvertTarget(self1.converter_, df) = "conv"
                THEN [heap EXCEPT !.conv = y] ELSE heap,
            t, ConvertTarget(self1.converter_, df), interp_type)

\* self.converter_ = ConverterFactory.get(conversion_type)
InterestRateCurveInterpolator_init_converter(self0, heap, t, df, interp_type, converter) ==
    IF IsExc(converter) THEN
        [exc |-> converter.e, self |-> self0, heap |-> heap,
         trace |-> <<"ConverterFactory.get">>]
    ELSE
        InterestRateCurveInterpolator_init_convert(
            [self0 EXCEPT !.converter_ = converter.n], heap, t, df, interp_type,
            convert(converter.n, heap[t], heap[df]))

InterestRateCurveInterpolator_init(name, heap, t, df, interp_type, conversion_type) ==
    InterestRateCurveInterpolator_init_converter(
        [k |-> "obj", cls |-> name, converter_ |-> Null, interp_ |-> None],
        heap, t, df, interp_type, ConverterFactory_get(conversion_type))

\* a __call__ that discounts over the clamped time: discount factors held flat
InterestRateCurveInterpolator_call_rate_clamped(t, t_int, y, df, rate) ==
    [t |-> t, t_int |-> t_int, y |-> y, df |-> df, rate |-> rate,
     ret |-> discount_factor(t_int, rate, CONTINUOUS)]

\* InterestRateCurveInterpolator.__call__, one operator per local variable
\* (t_int, y, df, rate); the result holds the locals and the returned value
InterestRateCurveInterpolator_call_rate(t, t_int, y, df, rate) ==
    [t |-> t, t_int |-> t_int, y |-> y, df |-> df, rate |-> rate,
     ret |-> discount_factor(t, rate, CONTINUOUS)]

InterestRateCurveInterpolator_call_df(t, t_int, y, df) ==
    InterestRateCurveInterpolator_call_rate(t, t_int, y, df,
        implied_rate(t_int, df, CONTINUOUS))

\* a __call__ that reverts at the query time instead of the clamped time
InterestRateCurveInterpolator_call_y_unclamped(self, t, t_int, y) ==
    InterestRateCurveInterpolator_call_df(t, t_int, y, revert(self.converter_, t, y))

InterestRateCurveInterpolator_call_y(self, t, t_int, y) ==
    InterestRateCurveInterpolator_call_df(t, t_int, y, revert(self.converter_, t_int, y))

InterestRateCurveInterpolator_call_t_int(self, heap, t, t_int) ==
    InterestRateCurveInterpolator_call_y(self, t, t_int,
        Interpolator_call(self.interp_, heap, t_int))

InterestRateCurveInterpolator_call(self, heap, t) ==
    InterestRateCurveInterpolator_call_t_int(self, heap, t,
        NpMinimum(NpMaximum(t, NpMin(heap[self.interp_.x])), NpMax(heap[self.interp_.x])))

\* the array objects after __call__(t): np.array(t) copies the query, every
\* later statement binds a local to a new array, and the interpolator is
\* called on t_int
InterestRateCurveInterpolator_call_heap(self, heap, t) ==
    Interpolator_call_heap(self.interp_, heap,
                           InterestRateCurveInterpolator_call(self, heap, t).t_int)

LOG_DISCOUNT_INTERPOLATION == 0
RAW_INTERPOLATION == 0
LINEAR_RATES_INTERPOLATION == 1
LINEAR_DISCOUNT_INTERPOLATION == 2
CUBIC_SPLINE_RATES_INTERPOLATION == 3
CurveInterpolationType ==
    {LOG_DISCOUNT_INTERPOLATION, RAW_INTERPOLATION, LINEAR_RATES_INTERPOLATION,
     LINEAR_DISCOUNT_INTERPOLATION, CUBIC_SPLINE_RATES_INTERPOLATION}

\* CurveInterpolatorFactory.FACTORY
CurveInterpolatorFACTORY ==
    [m \in CurveInterpolationType |->
        CASE m = RAW_INTERPOLATION -> "LogDiscountCurveInterpolator"
          [] m = LINEAR_RATES_INTERPOLATION -> "LinearRatesCurveInterpolator"
          [] m = LINEAR_DISCOUNT_INTERPOLATION -> "LinearDiscountCurveInterpolator"
          [] m = CUBIC_SPLINE_RATES_INTERPOLATION -> "CubicSplineRatesCurveInterpolator"]

\* the arguments each subclass's __init__ passes to super().__init__
LogDiscountCurveInterpolator_super ==
    [interp_type |-> LINEAR, conversion_type |-> LOGARITHMIC]
LinearRatesCurveInterpolator_super ==
    [interp_type |-> LINEAR, conversion_type |-> ZERO_RATES]
\* a linear-discount preset that converts to zero rates
LinearDiscountCurveInterpolator_super_rates ==
    [interp_type |-> LINEAR, conversion_type |-> ZERO_RATES]

LinearDiscountCurveInterpolator_super ==
    [interp_type |-> LINEAR, conversion_type |-> IDENTITY]
CubicSplineRatesCurveInterpolator_super ==
    [interp_type |-> CUBIC_SPLINE, conversion_type |-> ZERO_RATES]

SubclassSuper ==
    [LogDiscountCurveInterpolator |-> LogDiscountCurveInterpolator_super,
     LinearRatesCurveInterpolator |-> LinearRatesCurveInterpolator_super,
     LinearDiscountCurveInterpolator |-> LinearDiscountCurveInterpolator_super,
     CubicSplineRatesCurveInterpolator |-> CubicSplineRatesCurveInterpolator_super]

\* FACTORY[method](t, df): the constructor of the class found
CurveInterpolatorFactory_new(cls, heap, t, df) ==
    InterestRateCurveInterpolator_init(cls, heap, t, df,
        SubclassSuper[cls].interp_type, SubclassSuper[cls].conversion_type)

CurveInterpolatorFactory_built(r) ==
    [r EXCEPT !.trace = <<"CurveInterpolatorFactory.get">> \o r.trace]

CurveInterpolatorFactory_lookup(heap, t, df, key) ==
    IF key \notin DOMAIN CurveInterpolatorFACTORY THEN
        [exc |-> "KeyError", self |-> None, heap |-> heap,
         trace |-> <<"CurveInterpolatorFactory.get">>]
    ELSE
        CurveInterpolatorFactory_built(
            CurveInterpolatorFactory_new(CurveInterpolatorFACTORY[key], heap, t, df))

\* opt is <<>> when the caller leaves the method out, <<key>> otherwise
CurveInterpolatorFactory_get(heap, t, df, opt) ==
    CurveInterpolatorFactory_lookup(heap, t, df,
        IF opt = <<>> THEN RAW_INTERPOLATION ELSE opt[1])

(***************************************************************************)
(* mylib/interest/curve.py                                                 *)
(***************************************************************************)
\* self.interp_ = CurveInterpolatorFactory.get(maturity, discount, interp)
DiscountCurve_init_interp(self1, r) ==
    IF r.exc # NoExc THEN
        [exc |-> r.exc, self |-> self1, heap |-> r.heap, trace |-> r.trace]
    ELSE
        [exc |-> NoExc, self |-> [self1 EXCEPT !.interp_ = r.self], heap |-> r.heap,
         trace |-> r.trace]

\* a constructor without the two asserts
DiscountCurve_init_unchecked(self0, heap0, interp) ==
    DiscountCurve_init_interp(
        [self0 EXCEPT !.maturity = "maturity", !.discount = "discount"],
        CurveInterpolatorFactory_get(heap0, "maturity", "discount", <<interp>>))

\* DiscountCurve.__init__(maturity, discount, interp) on the caller's arrays:
\* the two asserts, then the fields
DiscountCurve_init_checked(self0, heap0, interp) ==
    IF Len(heap0.maturity.a) # Len(heap0.discount.a) THEN
        [exc |-> "AssertionError", self |-> self0, heap |-> heap0, trace |-> <<>>]
    ELSE IF ~(Len(heap0.maturity.a) > 1) THEN
        [exc |-> "AssertionError", self |-> self0, heap |-> heap0, trace |-> <<>>]
    ELSE
        DiscountCurve_init_interp(
            [self0 EXCEPT !.maturity = "maturity", !.discount = "discount"],
            CurveInterpolatorFactory_get(heap0, "maturity", "discount", <<interp>>))

\* opt is <<>> when the caller leaves interp out, <<key>> otherwise
DiscountCurve_init(maturity, discount, opt) ==
    DiscountCurve_init_checked(
        [k |-> "obj", cls |-> "DiscountCurve", maturity |-> Null, discount |-> Null,
         interp_ |-> None],
        [EmptyHeap EXCEPT !.maturity = maturity, !.discount = discount],
        IF opt = <<>> THEN RAW_INTERPOLATION ELSE opt[1])

DiscountCurve_discount_factor(self, heap, t) ==
    InterestRateCurveInterpolator_call(self.interp_, heap, t)

\* the array objects after self.discount_factor(t)
DiscountCurve_discount_factor_heap(self, heap, t) ==
    InterestRateCurveInterpolator_call_heap(self.interp_, heap, t)

\* InterestRateCurve.zero_rate
zero_rate(self, heap, t, comp) ==
    implied_rate(t, DiscountCurve_discount_factor(self, heap, t).ret, comp)

\* InterestRateCurve.forward_rate
forward_rate(self, heap, t1, t2, comp) ==
    LET df1 == DiscountCurve_discount_factor(self, heap, t1).ret
        df2 == DiscountCurve_discount_factor(self, heap, t2).ret
    IN  implied_rate(NpSub(t2, t1), NpDiv(df2, df1), comp)

\* a flat curve whose comp defaults to annual compounding
FlatCurve_init_annual(rate, opt) ==
    [k |-> "obj", cls |-> "FlatCurve", rate |-> rate,
     comp |-> IF opt = <<>> THEN ANNUAL ELSE opt[1]]

\* FlatCurve (dataclass): rate, and comp with the default Compound.CONTINUOUS;
\* opt is <<>> when the caller leaves comp out, <<comp>> otherwise
FlatCurve_init(rate, opt) ==
    [k |-> "obj", cls |-> "FlatCurve", rate |-> rate,
     comp |-> IF opt = <<>> THEN CONTINUOUS ELSE opt[1]]

FlatCurve_discount_factor(self, t) == discount_factor(t, self.rate, self.comp)

(***************************************************************************)
(* mylib/interest/model/parametric.py                                      *)
(***************************************************************************)
NelsonSiegelModel_init(beta0, beta1, beta2, lambda) ==
    [k |-> "obj", cls |-> "NelsonSiegelModel", beta0_ |-> beta0, beta1_ |-> beta1,
     beta2_ |-> beta2, lambda_ |-> lambda]

\* NelsonSiegelModel.rate, one operator per group of locals: (f1, f2), then
\* (dt, y1, y2)
NelsonSiegelModel_rate_f(self, f1, f2) ==
    NpAdd(NpAdd(self.beta0_, NpMul(self.beta1_, f1)), NpMul(self.beta2_, f2))

NelsonSiegelModel_rate_y(self, t0, t1, dt, y1, y2) ==
    NelsonSiegelModel_rate_f(self,
        NpDiv(NpMul(self.lambda_, NpSub(y1, y2)), dt),
        NpDiv(NpSub(NpMul(NpAdd(self.lambda_, t0), y1),
                    NpMul(NpAdd(self.lambda_, t1), y2)), dt))

NelsonSiegelModel_rate(self, t0, t1) ==
    NelsonSiegelModel_rate_y(self, t0, t1, NpSub(t1, t0),
        NpExp(NpDiv(NpNeg(t0), self.lambda_)), NpExp(NpDiv(NpNeg(t1), self.lambda_)))

ParametricInterestRateCurve_init(model) ==
    [k |-> "obj", cls |-> "ParametricInterestRateCurve", model |-> model]

ParametricInterestRateCurve_discount_factor(self, t) ==
    discount_factor(t, NelsonSiegelModel_rate(self.model, Num(0), t), CONTINUOUS)

(***************************************************************************)
(* The curve variants: the methods each class body defines, and the class  *)
(* a method of an object is found in (every variant derives directly from  *)
(* InterestRateCurve).                                                     *)
(***************************************************************************)
CurveClasses == {"FlatCurve", "DiscountCurve", "ParametricInterestRateCurve"}

ClassDict ==
    [InterestRateCurve |-> {"__init__", "discount_factor", "zero_rate", "forward_rate"},
     FlatCurve |-> {"__init__", "discount_factor"},
     DiscountCurve |-> {"__init__", "__str__", "discount_factor"},
     ParametricInterestRateCurve |-> {"__init__", "discount_factor"}]

Resolve(cls, method) == IF method \in ClassDict[cls] THEN cls ELSE "InterestRateCurve"

\* self.discount_factor(t): a value or an exception
Curve_discount_factor(self, heap, t) ==
    CASE Resolve(self.cls, "discount_factor") = "FlatCurve" ->
            FlatCurve_discount_factor(self, t)
      [] Resolve(self.cls, "discount_factor") = "DiscountCurve" ->
            DiscountCurve_discount_factor(self, heap, t).ret
      [] Resolve(self.cls, "discount_factor") = "ParametricInterestRateCurve" ->
            ParametricInterestRateCurve_discount_factor(self, t)
      [] OTHER -> None

\* InterestRateCurve.zero_rate on any variant
InterestRateCurve_zero_rate(self, heap, t, comp) ==
    implied_rate(t, Curve_discount_factor(self, heap, t), comp)

\* forward_rate with its two discount factors swapped
InterestRateCurve_forward_rate_swapped(self, heap, t1, t2, comp) ==
    implied_rate(NpSub(t2, t1),
                 NpDiv(Curve_discount_factor(self, heap, t1),
                       Curve_discount_factor(self, heap, t2)), comp)

\* InterestRateCurve.forward_rate on any variant
InterestRateCurve_forward_rate(self, heap, t1, t2, comp) ==
    implied_rate(NpSub(t2, t1),
                 NpDiv(Curve_discount_factor(self, heap, t2),
                       Curve_discount_factor(self, heap, t1)), comp)

\* self.zero_rate(t[, comp]) and self.forward_rate(t1, t2[, comp]): the method
\* found for the object's class, comp defaulting to Compound.CONTINUOUS
Curve_zero_rate(self, heap, t, opt) ==
    IF Resolve(self.cls, "zero_rate") = "InterestRateCurve"
    THEN InterestRateCurve_zero_rate(self, heap, t, IF opt = <<>> THEN CONTINUOUS ELSE opt[1])
    ELSE Exc("AttributeError")

Curve_forward_rate(self, heap, t1, t2, opt) ==
    IF Resolve(self.cls, "forward_rate") = "InterestRateCurve"
    THEN InterestRateCurve_forward_rate(self, heap, t1, t2,
                                        IF opt = <<>> THEN CONTINUOUS ELSE opt[1])
    ELSE Exc("AttributeError")

(***************************************************************************)
(* Bounds and inputs.                                                      *)
(***************************************************************************)
MaxKnots == 4
MaxTime == 4
MaxTenor == 30

\* maturities are whole years; queries also fall between and beyond them
KnotTimes == 0..MaxTime
QueryTimes ==
    {Num(n) : n \in 0..(MaxTime + 1)} \cup {Frac(1, 2), Frac(3, 2), Frac(2 * MaxTime + 1, 2)}
DFs == {Num(1), Frac(1, 2)}

ArrOf(s) == Arr([i \in 1..Len(s) |-> Num(s[i])])

\* maturity arrays a caller passes: consecutive years from a first maturity;
\* the last maturity lies one or two years after the one before it, repeats
\* it, or falls one year short of it
MaturityInputs ==
    UNION {{ArrOf(s) : s \in {u \in [1..L -> KnotTimes] :
                /\ \A i \in 1..(L - 2) : u[i + 1] = u[i] + 1
                /\ L >= 2 => u[L] - u[L - 1] \in {-1, 0, 1, 2}}}
           : L \in 0..MaxKnots}

\* discount arrays a caller passes: non-increasing in maturity
DiscountInputs ==
    UNION {{Arr(s) : s \in {u \in [1..L -> DFs] :
                \A i \in 1..(L - 1) : ~Less(u[i], u[i + 1])}}
           : L \in 0..MaxKnots}

\* a key that belongs to none of the four enumerations
UnknownKeys == {7}
PresetInputs == {<<>>} \cup {<<m>> : m \in CurveInterpolationType \cup UnknownKeys}

QueryVectors == {Arr(<<a, Num(MaxTime + 1)>>) : a \in {Num(0), Frac(3, 2)}}
QueryInputs == QueryTimes \cup QueryVectors
ZeroRateComps == {CONTINUOUS, SIMPLE}

\* arguments of the rate functions and of the converters: times in (0, MaxTenor],
\* discount factors in (0, 1], as numbers and as arrays
RateTimes == {Frac(1, 2), Num(1), Frac(3, 2), Num(MaxTenor)}
RateDFs == {Num(1), Frac(1, 2), Frac(2, 3), Frac(1, 10)}
RateArgs ==
    (RateTimes \X RateDFs) \cup {<<Arr(<<Frac(1, 2), Num(1)>>), Arr(<<Frac(2, 3), Frac(1, 2)>>)>>}
CompInputs == Compound \cup UnknownKeys
\* times, rates and conventions of capitalization and discount_factor: rational
\* rates under every convention, the rate ln 2 under continuous compounding
CapTimes == {Frac(1, 2), Num(1), Arr(<<Num(1), Num(2)>>)}
CapRates == {Num(0), Num(MONTHLY)}
CapArgs ==
    (CapTimes \X CapRates \X CompInputs)
        \cup (CapTimes \X {Log(Num(2))} \X ({CONTINUOUS} \cup UnknownKeys))

\* the curve variants: a convention left out or given; flat curves at the rates
\* 0 and 12 under every convention and at ln 2 under continuous compounding;
\* Nelson-Siegel models of level beta0; two knot sets for interpolated curves
CompOpts == {<<>>} \cup {<<c>> : c \in Compound}
FlatCurveArgs ==
    ({Num(0), Num(MONTHLY)} \X CompOpts) \cup ({Log(Num(2))} \X {<<>>, <<CONTINUOUS>>})
NelsonSiegelArgs ==
    {<<beta0, Num(0), Num(0), lambda>> :
        beta0 \in {Num(0), Frac(1, 2)}, lambda \in {Num(1), Num(2)}}
CurveKnots ==
    {<<ArrOf(<<1, 2>>), Arr(<<Num(1), Frac(1, 2)>>)>>,
     <<ArrOf(<<0, 1, 2, 4>>), Arr(<<Num(1), Frac(1, 2), Frac(1, 2), Frac(1, 2)>>)>>}
CurvePresets == {<<>>} \cup {<<m>> : m \in CurveInterpolationType}
CurveTimes == {Num(0), Frac(1, 2), Num(1), Num(2), Arr(<<Num(1), Num(2)>>)}

\* queries of one interpolated curve: times within and beyond the knots, a
\* convention of the enumeration or an unknown key (the query fails)
FrameTimes == CurveTimes \cup {Num(MaxTime + 1)}
FrameComps == {CONTINUOUS, SIMPLE} \cup UnknownKeys

\* what the caller writes into an element of the arrays it built a curve from
WrittenMaturities == {Frac(3, 2), Num(MaxTime + 1)}
WrittenDiscounts == {Frac(1, 4), Frac(3, 4)}

\* splines: knots, the values at the knots, and the rows a subclass's fit
\* returns (continuous at the knots, or with a jump at every interior knot)
SplineKnots == {ArrOf(<<1, 2>>), ArrOf(<<0, 1, 2>>), ArrOf(<<0, 1, 2, 4>>)}
SplineRow(a, b, c, d) == <<Num(a), Num(b), Num(c), Num(d)>>
SplineFits(n) ==
    {[i \in 1..(n - 1) |-> SplineRow(i, 1, 0, 0)],
     [i \in 1..(n - 1) |-> SplineRow(i, 0, 1, 1)],
     [i \in 1..(n - 1) |-> SplineRow(2 * i, 1, 0, 1)]}
SplineValues == {Num(-1), Num(0), Frac(1, 2), Num(1), Frac(3, 2), Num(2), Num(3),
                 Num(MaxTime), Num(MaxTime + 1)}
SplineQueries ==
    {Arr(<<v>>) : v \in SplineValues \cup {NaN, Inf}}
        \cup {Arr(<<Num(1), Num(2)>>), Arr(<<Frac(1, 2), Num(MaxTime + 1), Num(0)>>), Num(1)}

\* threads sharing one curve, and the times they query
NThreads == 2
Threads == 1..NThreads
ThreadTimes == {Frac(3, 2), Num(MaxTime + 1)}
ThreadPresets == {<<>>, <<LINEAR_RATES_INTERPOLATION>>, <<LOG_DISCOUNT_INTERPOLATION>>}

(***************************************************************************)
(* The state of a run: the array objects, the curve the caller holds       *)
(* (None before a DiscountCurve has been constructed) and the call that    *)
(* has just come back (None between calls); `built`, the curve and the     *)
(* array objects as the constructor left them; and `threads`, the calls    *)
(* that threads sharing the curve are in the middle of.                    *)
(***************************************************************************)
VARIABLES heap, curve, call, built, threads
vars == <<heap, curve, call, built, threads>>

Call(op, args, exc, ret, trace, frame) ==
    [k |-> "call", op |-> op, args |-> args, exc |-> exc, ret |-> ret,
     trace |-> trace, frame |-> frame]

\* what a call that evaluated to r raised, and what it returned
ExcOf(r) == IF IsExc(r) THEN r.e ELSE NoExc
RetOf(r) == IF IsExc(r) THEN None ELSE r

\* no thread is inside a call
NoThreads == <<>>

Init ==
    /\ heap = EmptyHeap
    /\ curve = None
    /\ call = None
    /\ built = None
    /\ threads = NoThreads

\* curve = DiscountCurve(maturity, discount[, interp]); a curve is built once,
\* from fresh arrays, at the start of a run
NewDiscountCurve ==
    /\ curve = None
    /\ call = None
    /\ \E maturity \in MaturityInputs, discount \in DiscountInputs, opt \in PresetInputs :
        \E r \in {DiscountCurve_init(maturity, discount, opt)} :
            /\ call' = Call("DiscountCurve", <<maturity, discount, opt>>, r.exc,
                            IF r.exc = NoExc THEN r.self ELSE None, r.trace, r.self)
            /\ curve' = IF r.exc = NoExc THEN r.self ELSE None
            /\ heap' = IF r.exc = NoExc THEN r.heap ELSE EmptyHeap
    /\ UNCHANGED <<built, threads>>

\* curve.discount_factor(t); the frame holds the locals of the interpolator's __call__
DiscountFactor ==
    /\ curve # None
    /\ call = None
    /\ \E t \in QueryInputs :
        \E f \in {DiscountCurve_discount_factor(curve, heap, t)} :
            call' = Call("discount_factor", <<t>>, ExcOf(f.ret), RetOf(f.ret), <<>>, f)
    /\ UNCHANGED <<heap, curve, built, threads>>

\* curve.zero_rate(t, comp)
ZeroRate ==
    /\ curve # None
    /\ call = None
    /\ \E t \in QueryTimes, comp \in ZeroRateComps :
        \E r \in {zero_rate(curve, heap, t, comp)} :
            call' = Call("zero_rate", <<t, comp>>, ExcOf(r), RetOf(r), <<>>, None)
    /\ UNCHANGED <<heap, curve, built, threads>>

\* the caller takes the result of the call
Return ==
    /\ call # None
    /\ call' = None
    /\ UNCHANGED <<heap, curve, built, threads>>

Next == NewDiscountCurve \/ DiscountFactor \/ ZeroRate \/ Return

Spec == Init /\ [][Next]_vars

(***************************************************************************)
(* The functions and factories called on their own: each call starts from  *)
(* the caller's arguments and leaves no object behind.                     *)
(***************************************************************************)
\* implied_rate(t, df, comp)
ImpliedRate ==
    /\ call = None
    /\ \E a \in RateArgs, comp \in CompInputs :
        \E r \in {implied_rate(a[1], a[2], comp)} :
            call' = Call("implied_rate", <<a[1], a[2], comp>>, ExcOf(r), RetOf(r),
                         RateSteps(comp), None)
    /\ UNCHANGED <<heap, curve, built, threads>>

\* capitalization(t, r, comp)
Capitalization ==
    /\ call = None
    /\ \E a \in CapArgs :
        \E r \in {capitalization(a[1], a[2], a[3])} :
            call' = Call("capitalization", a, ExcOf(r), RetOf(r), RateSteps(a[3]), None)
    /\ UNCHANGED <<heap, curve, built, threads>>

\* discount_factor(t, r, comp) of rates.py
RatesDiscountFactor ==
    /\ call = None
    /\ \E a \in CapArgs :
        \E r \in {discount_factor(a[1], a[2], a[3])} :
            call' = Call("rates.discount_factor", a, ExcOf(r), RetOf(r),
                         RateSteps(a[3]), None)
    /\ UNCHANGED <<heap, curve, built, threads>>

\* ConverterFactory.get(method)
ConverterFactoryGet ==
    /\ call = None
    /\ \E method \in ConversionType \cup UnknownKeys :
        \E r \in {ConverterFactory_get(method)} :
            call' = Call("ConverterFactory.get", <<method>>, ExcOf(r), RetOf(r),
                         <<"ConverterFactory.get">>, None)
    /\ UNCHANGED <<heap, curve, built, threads>>

\* ConverterFactory.get(method).is_correct(t, x); the frame holds the converted
\* value and the value reverted from it
IsCorrect ==
    /\ call = None
    /\ \E method \in ConversionType, a \in RateArgs :
        \E cls \in {ConverterFactory_get(method).n} :
            call' = Call("is_correct", <<method, a[1], a[2]>>, NoExc,
                         is_correct(cls, a[1], a[2]), <<>>,
                         [y |-> convert(cls, a[1], a[2]),
                          x |-> revert(cls, a[1], convert(cls, a[1], a[2]))])
    /\ UNCHANGED <<heap, curve, built, threads>>

\* InterpolatorFactory.get(x, y, method)
InterpolatorFactoryGet ==
    /\ call = None
    /\ \E x \in MaturityInputs, y \in DiscountInputs,
          method \in InterpolationType \cup UnknownKeys :
        \E r \in {InterpolatorFactory_get(
                    [EmptyHeap EXCEPT !.maturity = x, !.discount = y],
                    "maturity", "discount", method)} :
            call' = Call("InterpolatorFactory.get", <<x, y, method>>, ExcOf(r), RetOf(r),
                         InterpolatorFactory_steps(method), None)
    /\ UNCHANGED <<heap, curve, built, threads>>

\* CurveInterpolatorFactory.get(t, df[, method])
CurveInterpolatorFactoryGet ==
    /\ call = None
    /\ \E t \in MaturityInputs, df \in DiscountInputs, opt \in PresetInputs :
        \E r \in {CurveInterpolatorFactory_get(
                    [EmptyHeap EXCEPT !.maturity = t, !.discount = df],
                    "maturity", "discount", opt)} :
            call' = Call("CurveInterpolatorFactory.get", <<t, df, opt>>, r.exc,
                         IF r.exc = NoExc THEN r.self ELSE None, r.trace, r.self)
    /\ UNCHANGED <<heap, curve, built, threads>>

NextApi ==
    \/ ImpliedRate
    \/ Capitalization
    \/ RatesDiscountFactor
    \/ ConverterFactoryGet
    \/ IsCorrect
    \/ InterpolatorFactoryGet
    \/ CurveInterpolatorFactoryGet
    \/ Return

SpecApi == Init /\ [][NextApi]_vars

(***************************************************************************)
(* The three curve variants and the rates derived from their discount      *)
(* factors.                                                                *)
(***************************************************************************)
\* curve = FlatCurve(rate[, comp])
NewFlatCurve ==
    /\ curve = None
    /\ call = None
    /\ \E a \in FlatCurveArgs :
        \E self \in {FlatCurve_init(a[1], a[2])} :
            /\ call' = Call("FlatCurve", a, NoExc, self, <<>>, self)
            /\ curve' = self
    /\ UNCHANGED <<heap, built, threads>>

\* curve = ParametricInterestRateCurve(NelsonSiegelModel(beta0, beta1, beta2, lambda))
NewParametricCurve ==
    /\ curve = None
    /\ call = None
    /\ \E a \in NelsonSiegelArgs :
        \E self \in {ParametricInterestRateCurve_init(
                        NelsonSiegelModel_init(a[1], a[2], a[3], a[4]))} :
            /\ call' = Call("ParametricInterestRateCurve", a, NoExc, self, <<>>, self)
            /\ curve' = self
    /\ UNCHANGED <<heap, built, threads>>

\* curve = DiscountCurve(maturity, discount[, interp])
NewInterpolatedCurve ==
    /\ curve = None
    /\ call = None
    /\ \E kn \in CurveKnots, opt \in CurvePresets :
        \E r \in {DiscountCurve_init(kn[1], kn[2], opt)} :
            /\ call' = Call("DiscountCurve", <<kn[1], kn[2], opt>>, r.exc,
                            IF r.exc = NoExc THEN r.self ELSE None, r.trace, r.self)
            /\ curve' = IF r.exc = NoExc THEN r.self ELSE None
            /\ heap' = IF r.exc = NoExc THEN r.heap ELSE EmptyHeap
    /\ UNCHANGED <<built, threads>>

\* curve.discount_factor(t)
CurveDiscountFactor ==
    /\ curve # None
    /\ call = None
    /\ \E t \in CurveTimes :
        \E r \in {Curve_discount_factor(curve, heap, t)} :
            call' = Call("Curve.discount_factor", <<t>>, ExcOf(r), RetOf(r), <<>>, curve)
    /\ UNCHANGED <<heap, curve, built, threads>>

\* discount_factor(t, r[, comp]) of rates.py
DiscountFactorCall ==
    /\ call = None
    /\ \E t \in CurveTimes, a \in FlatCurveArgs :
        \E r \in {discount_factor_call(t, a[1], a[2])} :
            call' = Call("discount_factor(t, r[, comp])", <<t, a[1], a[2]>>, ExcOf(r),
                         RetOf(r), <<>>, None)
    /\ UNCHANGED <<heap, curve, built, threads>>

\* curve.zero_rate(t[, comp])
CurveZeroRate ==
    /\ curve # None
    /\ call = None
    /\ \E t \in CurveTimes, opt \in CompOpts :
        \E r \in {Curve_zero_rate(curve, heap, t, opt)} :
            call' = Call("Curve.zero_rate", <<t, opt>>, ExcOf(r), RetOf(r), <<>>, curve)
    /\ UNCHANGED <<heap, curve, built, threads>>

\* curve.forward_rate(t1, t2[, comp])
CurveForwardRate ==
    /\ curve # None
    /\ call = None
    /\ \E t1 \in CurveTimes, t2 \in CurveTimes, opt \in CompOpts :
        \E r \in {Curve_forward_rate(curve, heap, t1, t2, opt)} :
            call' = Call("Curve.forward_rate", <<t1, t2, opt>>, ExcOf(r), RetOf(r), <<>>,
                         curve)
    /\ UNCHANGED <<heap, curve, built, threads>>

NextCurves ==
    \/ NewFlatCurve
    \/ NewParametricCurve
    \/ NewInterpolatedCurve
    \/ CurveDiscountFactor
    \/ CurveZeroRate
    \/ CurveForwardRate
    \/ DiscountFactorCall
    \/ Return

SpecCurves == Init /\ [][NextCurves]_vars

(***************************************************************************)
(* Sequences of queries on one interpolated curve.  `built` keeps the      *)
(* curve and the array objects as they were when the constructor returned. *)
(***************************************************************************)
\* curve = DiscountCurve(maturity, discount[, interp])
BuildCurve ==
    /\ curve = None
    /\ call = None
    /\ built = None
    /\ \E kn \in CurveKnots, opt \in CurvePresets :
        \E r \in {DiscountCurve_init(kn[1], kn[2], opt)} :
            /\ call' = Call("DiscountCurve", <<kn[1], kn[2], opt>>, r.exc,
                            IF r.exc = NoExc THEN r.self ELSE None, r.trace, r.self)
            /\ curve' = IF r.exc = NoExc THEN r.self ELSE None
            /\ heap' = IF r.exc = NoExc THEN r.heap ELSE EmptyHeap
            /\ built' = IF r.exc = NoExc THEN [curve |-> r.self, heap |-> r.heap] ELSE None
    /\ UNCHANGED threads

\* curve.discount_factor(t)
QueryDiscountFactor ==
    /\ curve # None
    /\ call = None
    /\ \E t \in FrameTimes :
        \E r \in {DiscountCurve_discount_factor(curve, heap, t).ret} :
            /\ call' = Call("discount_factor", <<t>>, ExcOf(r), RetOf(r), <<>>, None)
            /\ heap' = DiscountCurve_discount_factor_heap(curve, heap, t)
    /\ UNCHANGED <<curve, built, threads>>

\* curve.zero_rate(t, comp): one call of self.discount_factor
QueryZeroRate ==
    /\ curve # None
    /\ call = None
    /\ \E t \in FrameTimes, comp \in FrameComps :
        \E r \in {zero_rate(curve, heap, t, comp)} :
            /\ call' = Call("zero_rate", <<t, comp>>, ExcOf(r), RetOf(r), <<>>, None)
            /\ heap' = DiscountCurve_discount_factor_heap(curve, heap, t)
    /\ UNCHANGED <<curve, built, threads>>

\* curve.forward_rate(t1, t2, comp): self.discount_factor(t1), then
\* self.discount_factor(t2) on the array objects the first call left
QueryForwardRate ==
    /\ curve # None
    /\ call = None
    /\ \E t1 \in FrameTimes, t2 \in FrameTimes, comp \in FrameComps :
        \E h1 \in {DiscountCurve_discount_factor_heap(curve, heap, t1)} :
            \E r \in {implied_rate(NpSub(t2, t1),
                            NpDiv(DiscountCurve_discount_factor(curve, h1, t2).ret,
                                  DiscountCurve_discount_factor(curve, heap, t1).ret),
                            comp)} :
                /\ call' = Call("forward_rate", <<t1, t2, comp>>, ExcOf(r), RetOf(r),
                                <<>>, None)
                /\ heap' = DiscountCurve_discount_factor_heap(curve, h1, t2)
    /\ UNCHANGED <<curve, built, threads>>

\* curve.interp_.interp_.interpolate(x): the interpolator's evaluation
QueryInterpolate ==
    /\ curve # None
    /\ call = None
    /\ \E x \in FrameTimes :
        \E r \in {Interpolator_call(curve.interp_.interp_, heap, x)} :
            /\ call' = Call("interpolate", <<x>>, ExcOf(r), RetOf(r), <<>>, None)
            /\ heap' = Interpolator_call_heap(curve.interp_.interp_, heap, x)
    /\ UNCHANGED <<curve, built, threads>>

NextFrame ==
    \/ BuildCurve
    \/ QueryDiscountFactor
    \/ QueryZeroRate
    \/ QueryForwardRate
    \/ QueryInterpolate
    \/ Return

SpecFrame == Init /\ [][NextFrame]_vars

(***************************************************************************)
(* The caller keeps the arrays it passed to DiscountCurve and writes into  *)
(* them after the curve is built.  The curve, its curve interpolator and   *)
(* its interpolator hold the array objects they were given (self.maturity, *)
(* self.discount, Interpolator.x and, through IdentityConverter.convert,   *)
(* Interpolator.y), so a write is seen by every later read of them.        *)
(***************************************************************************)
\* maturities[i] = v, keeping the maturities increasing
CallerWritesMaturity ==
    /\ curve # None
    /\ call = None
    /\ heap = built.heap
    /\ \E i \in 1..Len(heap.maturity.a), v \in WrittenMaturities :
        /\ heap.maturity.a[i] # v
        /\ StrictlyIncreasing([heap.maturity.a EXCEPT ![i] = v])
        /\ heap' = [heap EXCEPT !.maturity = Arr([heap.maturity.a EXCEPT ![i] = v])]
    /\ UNCHANGED <<curve, call, built, threads>>

\* discounts[i] = v
CallerWritesDiscount ==
    /\ curve # None
    /\ call = None
    /\ heap = built.heap
    /\ \E i \in 1..Len(heap.discount.a), v \in WrittenDiscounts :
        /\ heap.discount.a[i] # v
        /\ heap' = [heap EXCEPT !.discount = Arr([heap.discount.a EXCEPT ![i] = v])]
    /\ UNCHANGED <<curve, call, built, threads>>

NextAlias ==
    \/ BuildCurve
    \/ CallerWritesMaturity
    \/ CallerWritesDiscount
    \/ QueryDiscountFactor
    \/ Return

SpecAlias == Init /\ [][NextAlias]_vars

(***************************************************************************)
(* A spline interpolator of a subclass of SplineInterpolator, and its      *)
(* index and evaluation.  `curve` holds the interpolator.                  *)
(***************************************************************************)
\* interp = Subclass(x, y)
NewSpline ==
    /\ curve = None
    /\ call = None
    /\ \E x \in SplineKnots :
        \E theta \in SplineFits(Len(x.a)) :
            \E r \in {SplineInterpolator_init("maturity", "discount", theta)} :
                /\ call' = Call("SplineInterpolator", <<x, x, theta>>, NoExc, r, <<>>, r)
                /\ curve' = r
                /\ heap' = [EmptyHeap EXCEPT !.maturity = x, !.discount = x]
    /\ UNCHANGED <<built, threads>>

\* interp.index(t)
SplineIndex ==
    /\ curve # None
    /\ call = None
    /\ \E t \in SplineQueries :
        \E r \in {SplineInterpolator_index(curve, heap, t)} :
            call' = Call("SplineInterpolator.index", <<t>>, ExcOf(r), RetOf(r), <<>>, curve)
    /\ UNCHANGED <<heap, curve, built, threads>>

\* interp(x); the trace holds the segment indices the evaluation used
SplineCall ==
    /\ curve # None
    /\ call = None
    /\ \E x \in SplineQueries :
        \E r \in {SplineInterpolator_call(curve, heap, x)} :
            call' = Call("SplineInterpolator.__call__", <<x>>, ExcOf(r.ret), RetOf(r.ret),
                         r.idx, curve)
    /\ UNCHANGED <<heap, curve, built, threads>>

NextSpline == NewSpline \/ SplineIndex \/ SplineCall \/ Return

SpecSpline == Init /\ [][NextSpline]_vars

(***************************************************************************)
(* Threads calling one curve without locking.  A thread runs __call__ one  *)
(* statement at a time, and any other thread may run between two of its    *)
(* statements.  threads.pc[th] is the local the thread has just bound,     *)
(* threads.loc the frames holding the locals of the calls, threads.ret[th] *)
(* what the thread's call returned.                                        *)
(***************************************************************************)
\* locals kept in one place shared by every call (as attributes of self)
FrameOf_shared(th) == 1

\* the frame of a thread's call: every call of __call__ has its own locals
FrameOf(th) == th

NoLocals == [t |-> None, t_int |-> None, y |-> None, df |-> None, rate |-> None]

\* curve = DiscountCurve(maturity, discount[, interp]), then handed to the threads
ShareCurve ==
    /\ curve = None
    /\ call = None
    /\ threads = NoThreads
    /\ \E kn \in CurveKnots, opt \in ThreadPresets :
        \E r \in {DiscountCurve_init(kn[1], kn[2], opt)} :
            /\ r.exc = NoExc
            /\ call' = Call("DiscountCurve", <<kn[1], kn[2], opt>>, r.exc, r.self,
                            r.trace, r.self)
            /\ curve' = r.self
            /\ heap' = r.heap
            /\ built' = [curve |-> r.self, heap |-> r.heap]
    /\ threads' = [pc |-> [th \in Threads |-> "idle"],
                   op |-> [th \in Threads |-> Null],
                   arg |-> [th \in Threads |-> None],
                   loc |-> [th \in Threads |-> NoLocals],
                   ret |-> [th \in Threads |-> None]]

\* a thread calls curve.discount_factor(t): t = np.array(t)
ThreadCall ==
    /\ threads # NoThreads
    /\ call = None
    /\ \E th \in Threads, t \in ThreadTimes :
        /\ threads.pc[th] = "idle"
        /\ threads' = [threads EXCEPT !.pc[th] = "t", !.op[th] = "discount_factor",
                                      !.arg[th] = t, !.ret[th] = None,
                                      !.loc[FrameOf(th)] = [NoLocals EXCEPT !.t = t]]
    /\ UNCHANGED <<heap, curve, call, built>>

\* t_int = np.minimum(np.maximum(t, min_t), max_t), reading self.interp_.x
ThreadClamp ==
    /\ threads # NoThreads
    /\ call = None
    /\ \E th \in Threads :
        /\ threads.pc[th] = "t"
        /\ threads' = [threads EXCEPT !.pc[th] = "t_int",
                !.loc[FrameOf(th)].t_int =
                    NpMinimum(NpMaximum(threads.loc[FrameOf(th)].t,
                                        NpMin(heap[curve.interp_.interp_.x])),
                              NpMax(heap[curve.interp_.interp_.x]))]
    /\ UNCHANGED <<heap, curve, call, built>>

\* y = self.interp_(t_int)
ThreadInterpolate ==
    /\ threads # NoThreads
    /\ call = None
    /\ \E th \in Threads :
        /\ threads.pc[th] = "t_int"
        /\ threads' = [threads EXCEPT !.pc[th] = "y",
                !.loc[FrameOf(th)].y =
                    Interpolator_call(curve.interp_.interp_, heap,
                                      threads.loc[FrameOf(th)].t_int)]
        /\ heap' = Interpolator_call_heap(curve.interp_.interp_, heap,
                                          threads.loc[FrameOf(th)].t_int)
    /\ UNCHANGED <<curve, call, built>>

\* df = self.converter_.revert(t_int, y)
ThreadRevert ==
    /\ threads # NoThreads
    /\ call = None
    /\ \E th \in Threads :
        /\ threads.pc[th] = "y"
        /\ threads' = [threads EXCEPT !.pc[th] = "df",
                !.loc[FrameOf(th)].df =
                    revert(curve.interp_.converter_, threads.loc[FrameOf(th)].t_int,
                           threads.loc[FrameOf(th)].y)]
    /\ UNCHANGED <<heap, curve, call, built>>

\* rate = implied_rate(t_int, df)
ThreadRate ==
    /\ threads # NoThreads
    /\ call = None
    /\ \E th \in Threads :
        /\ threads.pc[th] = "df"
        /\ threads' = [threads EXCEPT !.pc[th] = "rate",
                !.loc[FrameOf(th)].rate =
                    implied_rate(threads.loc[FrameOf(th)].t_int,
                                 threads.loc[FrameOf(th)].df, CONTINUOUS)]
    /\ UNCHANGED <<heap, curve, call, built>>

\* return discount_factor(t, rate)
ThreadReturn ==
    /\ threads # NoThreads
    /\ call = None
    /\ \E th \in Threads :
        /\ threads.pc[th] = "rate"
        /\ threads' = [threads EXCEPT !.pc[th] = "done",
                !.ret[th] = discount_factor(threads.loc[FrameOf(th)].t,
                                            threads.loc[FrameOf(th)].rate, CONTINUOUS)]
    /\ UNCHANGED <<heap, curve, call, built>>

\* a thread calls curve.interp_.interp_.interpolate(x): one call of np.interp
\* or splev
ThreadEvaluate ==
    /\ threads # NoThreads
    /\ call = None
    /\ \E th \in Threads, x \in ThreadTimes :
        /\ threads.pc[th] = "idle"
        /\ threads' = [threads EXCEPT !.pc[th] = "done", !.op[th] = "interpolate",
                !.arg[th] = x,
                !.ret[th] = Interpolator_call(curve.interp_.interp_, heap, x)]
        /\ heap' = Interpolator_call_heap(curve.interp_.interp_, heap, x)
    /\ UNCHANGED <<curve, call, built>>

\* the caller takes the result; the thread may call again
ThreadJoin ==
    /\ threads # NoThreads
    /\ call = None
    /\ \E th \in Threads :
        /\ threads.pc[th] = "done"
        /\ threads' = [threads EXCEPT !.pc[th] = "idle", !.op[th] = Null,
                                      !.arg[th] = None, !.ret[th] = None]
    /\ UNCHANGED <<heap, curve, call, built>>

NextThreads ==
    \/ ShareCurve
    \/ ThreadCall
    \/ ThreadClamp
    \/ ThreadInterpolate
    \/ ThreadRevert
    \/ ThreadRate
    \/ ThreadReturn
    \/ ThreadEvaluate
    \/ ThreadJoin
    \/ Return

SpecThreads == Init /\ [][NextThreads]_vars

(***************************************************************************)
(* Properties.                                                             *)
(***************************************************************************)
IsCall(op) == call.k = "call" /\ call.op = op

\* the same real number (nan equals nothing)
SameReal(a, b) == IsFinite(a) /\ IsFinite(b) /\ a = b
Same(a, b) ==
    IF IsArr(a) \/ IsArr(b) THEN
        /\ IsArr(a) /\ IsArr(b) /\ Len(a.a) = Len(b.a)
        /\ \A i \in 1..Len(a.a) : SameReal(a.a[i], b.a[i])
    ELSE SameReal(a, b)
Positive(x) == IsFinite(x) /\ Sign(x) = 1

\* the knot-set invariant: matching lengths, at least two knots, strictly
\* increasing non-negative maturities
ValidKnots(m, d) ==
    /\ Len(m.a) = Len(d.a)
    /\ Len(m.a) >= 2
    /\ StrictlyIncreasing(m.a)
    /\ \A i \in 1..Len(m.a) : ~Less(m.a[i], Num(0))

Elements(x) == {x.a[i] : i \in 1..Len(x.a)}
LeastOf(x) == CHOOSE m \in Elements(x) : \A e \in Elements(x) : ~Less(e, m)
GreatestOf(x) == CHOOSE m \in Elements(x) : \A e \in Elements(x) : ~Less(m, e)
ClampScalar(q, lo, hi) == IF Less(q, lo) THEN lo ELSE IF Less(hi, q) THEN hi ELSE q
\* q clamped into [min(x), max(x)], component by component
Clamped(q, x) ==
    IF IsArr(q)
    THEN Arr([i \in 1..Len(q.a) |-> ClampScalar(q.a[i], LeastOf(x), GreatestOf(x))])
    ELSE ClampScalar(q, LeastOf(x), GreatestOf(x))

\* a scalar query beyond the largest knot maturity has come back
BeyondLastKnot(op) ==
    /\ IsCall(op)
    /\ IsNum(call.args[1])
    /\ Less(GreatestOf(heap.maturity), call.args[1])

\* C1: on a curve built from a valid knot set (matching lengths, at least two
\* knots, strictly increasing non-negative maturities) with any preset,
\* discount_factor at a knot maturity t_i returns the knot's discount factor df_i.
C1_ExactAtKnots ==
    (IsCall("discount_factor") /\ IsNum(call.args[1])
        /\ ValidKnots(heap.maturity, heap.discount))
    => \A i \in 1..Len(heap.maturity.a) :
            call.args[1] = heap.maturity.a[i] => SameReal(call.ret, heap.discount.a[i])

\* C2: DiscountCurve(maturity, discount, ...) with fewer than two knots or with
\* arrays of different lengths raises the validation error before any preset
\* lookup, conversion or fit: no step was taken, no interpolator was assigned
\* and the caller holds no curve.
C2_ValidationBeforeFitting ==
    (IsCall("DiscountCurve")
        /\ (Len(call.args[1].a) < 2 \/ Len(call.args[1].a) # Len(call.args[2].a)))
    => /\ call.exc = "AssertionError"
       /\ call.trace = <<>>
       /\ call.ret = None
       /\ call.frame.interp_ = None
       /\ curve = None

C2_Witness ==
    /\ IsCall("DiscountCurve")
    /\ Len(call.args[1].a) = 1
    /\ Len(call.args[2].a) = 1
    /\ call.args[3] = <<LINEAR_RATES_INTERPOLATION>>
    /\ call.exc = "AssertionError"

\* C3: DiscountCurve(maturity, discount, ...) whose maturities are not strictly
\* increasing raises the validation error before any fitting, and every curve
\* a caller holds has strictly increasing maturities.
C3_IncreasingMaturities ==
    /\ (IsCall("DiscountCurve") /\ ~StrictlyIncreasing(call.args[1].a))
        => (call.exc = "AssertionError" /\ call.trace = <<>>)
    /\ curve # None => StrictlyIncreasing(heap.maturity.a)

\* C4: on a curve built from a valid knot set, zero_rate(t) under continuous
\* compounding, for t beyond the largest knot maturity, equals
\* zero_rate(max(knots)).
C4_FlatZeroRateBeyond ==
    (BeyondLastKnot("zero_rate") /\ call.args[2] = CONTINUOUS
        /\ ValidKnots(heap.maturity, heap.discount))
    => SameReal(call.ret, zero_rate(curve, heap, GreatestOf(heap.maturity), CONTINUOUS))

\* C5 as stated: for t beyond the largest knot maturity, discount_factor(t) is
\* strictly less than discount_factor(max(knots)).
C5_StrictDecayBeyond ==
    BeyondLastKnot("discount_factor")
    => Less(call.ret, DiscountCurve_discount_factor(curve, heap, GreatestOf(heap.maturity)).ret)

\* C5, amended: for t beyond the largest knot maturity, discount_factor(t) is
\* strictly less than discount_factor(max(knots)) whenever the continuously
\* compounded zero rate at the largest knot maturity is positive.
C5_DecayBeyondAtPositiveRate ==
    (BeyondLastKnot("discount_factor")
        /\ Positive(zero_rate(curve, heap, GreatestOf(heap.maturity), CONTINUOUS)))
    => Less(call.ret, DiscountCurve_discount_factor(curve, heap, GreatestOf(heap.maturity)).ret)

C5_Witness ==
    /\ BeyondLastKnot("discount_factor")
    /\ Positive(zero_rate(curve, heap, GreatestOf(heap.maturity), CONTINUOUS))
    /\ curve.interp_.cls = "LinearDiscountCurveInterpolator"
    /\ Less(call.ret, DiscountCurve_discount_factor(curve, heap, GreatestOf(heap.maturity)).ret)

\* C6: a query q returns discount_factor(q, r, continuous) with
\* r = implied_rate(q_c, revert(q_c, evaluate(q_c)), continuous) and q_c the
\* query clamped into [min(t), max(t)]: the interpolator, the revert and the
\* implied rate are given q_c, the last discounting the unclamped q; a vector
\* query returns, component by component, what the scalar queries return.
C6_ClampedPipeline ==
    IsCall("discount_factor")
    => /\ call.frame.t_int = Clamped(call.args[1], heap.maturity)
       /\ call.frame.y = Interpolator_call(curve.interp_.interp_, heap, call.frame.t_int)
       /\ call.frame.df = revert(curve.interp_.converter_, call.frame.t_int, call.frame.y)
       /\ call.frame.rate = implied_rate(call.frame.t_int, call.frame.df, CONTINUOUS)
       /\ call.frame.ret = discount_factor(call.args[1], call.frame.rate, CONTINUOUS)
       /\ IsArr(call.args[1]) =>
            \A i \in 1..Len(call.args[1].a) :
                call.frame.ret.a[i]
                    = DiscountCurve_discount_factor(curve, heap, call.args[1].a[i]).ret

C6_Witness ==
    /\ IsCall("discount_factor")
    /\ IsArr(call.args[1])
    /\ call.frame.t_int # call.args[1]
    /\ curve.interp_.converter_ = "ZeroRatesConverter"
    /\ \A i \in 1..Len(call.ret.a) : IsFinite(call.ret.a[i])

\* C7: for t > 0, df in (0, 1] and each of the six compounding conventions c,
\* discount_factor(t, implied_rate(t, df, c), c) is df.
C7_RateDiscountInverse ==
    (IsCall("implied_rate") /\ call.args[3] \in Compound)
    => Same(discount_factor(call.args[1], call.ret, call.args[3]), call.args[2])

C7_Witness ==
    /\ IsCall("implied_rate")
    /\ call.args = <<Num(MaxTenor), Frac(2, 3), MONTHLY>>
    /\ Same(discount_factor(call.args[1], call.ret, call.args[3]), call.args[2])

\* C8: for each of the five converters of the factory, t in (0, 30] and x in
\* (0, 1], revert(t, convert(t, x)) is x and is_correct(t, x) is true.
C8_ConverterRoundTrip ==
    IsCall("is_correct")
    => /\ Same(call.frame.x, call.args[3])
       /\ IF IsArr(call.args[3])
          THEN IsArr(call.ret) /\ \A i \in 1..Len(call.ret.a) : call.ret.a[i]
          ELSE call.ret

C8_Witness ==
    /\ IsCall("is_correct")
    /\ call.args[1] = RATE_TIME
    /\ IsArr(call.args[3])
    /\ call.frame.y # call.args[3]
    /\ Same(call.frame.x, call.args[3])

\* C9: a curve built with a preset holds the interpolator and the converter of
\* the preset's pair: raw / log-discount (linear, logarithmic), linear-rate
\* (linear, zero-rate), linear-discount (linear, identity), cubic-spline-rate
\* (cubic-spline, zero-rate); raw and log-discount select the same curve
\* interpolator, and a curve built without a preset is built as with raw.
C9_PresetPairs ==
    /\ CurveInterpolatorFACTORY[RAW_INTERPOLATION]
        = CurveInterpolatorFACTORY[LOG_DISCOUNT_INTERPOLATION]
    /\ (IsCall("DiscountCurve") /\ call.exc = NoExc)
        => /\ call.args[3] \in {<<>>, <<RAW_INTERPOLATION>>, <<LOG_DISCOUNT_INTERPOLATION>>}
                => /\ curve.interp_.cls = "LogDiscountCurveInterpolator"
                   /\ curve.interp_.interp_.cls = InterpolatorFACTORY[LINEAR]
                   /\ curve.interp_.converter_ = ConverterFACTORY[LOGARITHMIC]
           /\ call.args[3] = <<LINEAR_RATES_INTERPOLATION>>
                => /\ curve.interp_.interp_.cls = InterpolatorFACTORY[LINEAR]
                   /\ curve.interp_.converter_ = ConverterFACTORY[ZERO_RATES]
           /\ call.args[3] = <<LINEAR_DISCOUNT_INTERPOLATION>>
                => /\ curve.interp_.interp_.cls = InterpolatorFACTORY[LINEAR]
                   /\ curve.interp_.converter_ = ConverterFACTORY[IDENTITY]
           /\ call.args[3] = <<CUBIC_SPLINE_RATES_INTERPOLATION>>
                => /\ curve.interp_.interp_.cls = InterpolatorFACTORY[CUBIC_SPLINE]
                   /\ curve.interp_.converter_ = ConverterFACTORY[ZERO_RATES]

C9_Witness ==
    /\ IsCall("DiscountCurve")
    /\ call.exc = NoExc
    /\ call.args[3] = <<CUBIC_SPLINE_RATES_INTERPOLATION>>
    /\ curve.interp_.interp_.cls = "CubicSplineInterpolator"
    /\ curve.interp_.converter_ = "ZeroRatesConverter"

\* the call was given a key outside the enumeration it is looked up in
UnknownKeyCall ==
    \/ /\ call.op \in {"implied_rate", "capitalization", "rates.discount_factor"}
       /\ call.args[3] \notin Compound
    \/ call.op = "ConverterFactory.get" /\ call.args[1] \notin ConversionType
    \/ call.op = "InterpolatorFactory.get" /\ call.args[3] \notin InterpolationType
    \/ /\ call.op = "CurveInterpolatorFactory.get"
       /\ call.args[3] # <<>>
       /\ call.args[3][1] \notin CurveInterpolationType

NumericSteps == {"continuous", "simple", "periodic", "convert", "fit"}

\* C10: an unknown compounding convention given to implied_rate,
\* capitalization or discount_factor, an unknown conversion kind given to the
\* converter factory, an unknown interpolation kind given to the interpolator
\* factory and an unknown preset given to the curve-interpolator factory each
\* raise an error: the call returns no value and took no numeric step.
C10_UnknownKeyRejected ==
    (call.k = "call" /\ UnknownKeyCall)
    => /\ call.exc \in {"KeyError", "ValueError"}
       /\ call.ret = None
       /\ \A i \in 1..Len(call.trace) : call.trace[i] \notin NumericSteps

C10_Witness ==
    /\ IsCall("InterpolatorFactory.get")
    /\ call.args[3] \notin InterpolationType
    /\ Len(call.args[1].a) = MaxKnots
    /\ call.exc = "KeyError"

\* the discount factor of each variant, from the fields of the object
VariantDiscountFactor(self, hp, t) ==
    CASE self.cls = "FlatCurve" -> discount_factor(t, self.rate, self.comp)
      [] self.cls = "ParametricInterestRateCurve" ->
            discount_factor(t, NelsonSiegelModel_rate(self.model, Num(0), t), CONTINUOUS)
      [] self.cls = "DiscountCurve" -> InterestRateCurveInterpolator_call(self.interp_, hp, t).ret

\* C11: on a flat, an interpolated and a parametric curve, zero_rate(t, conv)
\* is implied_rate(t, discount_factor(t), conv) and forward_rate(t1, t2, conv)
\* is implied_rate(t2 - t1, discount_factor(t2) / discount_factor(t1), conv),
\* conv being continuous when left out; both are the methods of the base class
\* (no variant defines its own), computed from the variant's discount_factor,
\* and the call leaves the curve as it was.
C11_DerivedRates ==
    /\ \A c \in CurveClasses :
            /\ Resolve(c, "zero_rate") = "InterestRateCurve"
            /\ Resolve(c, "forward_rate") = "InterestRateCurve"
            /\ Resolve(c, "discount_factor") = c
    /\ IsCall("Curve.zero_rate")
        => /\ call.frame = curve
           /\ <<call.exc, call.ret>>
                = <<ExcOf(implied_rate(call.args[1],
                            VariantDiscountFactor(curve, heap, call.args[1]),
                            IF call.args[2] = <<>> THEN CONTINUOUS ELSE call.args[2][1])),
                    RetOf(implied_rate(call.args[1],
                            VariantDiscountFactor(curve, heap, call.args[1]),
                            IF call.args[2] = <<>> THEN CONTINUOUS ELSE call.args[2][1]))>>
    /\ IsCall("Curve.forward_rate")
        => /\ call.frame = curve
           /\ call.exc = NoExc
           /\ call.ret
                = implied_rate(NpSub(call.args[2], call.args[1]),
                        NpDiv(VariantDiscountFactor(curve, heap, call.args[2]),
                              VariantDiscountFactor(curve, heap, call.args[1])),
                        IF call.args[3] = <<>> THEN CONTINUOUS ELSE call.args[3][1])

C11_Witness ==
    /\ IsCall("Curve.forward_rate")
    /\ curve.cls = "ParametricInterestRateCurve"
    /\ call.args = <<Num(1), Num(2), <<SEMIANNUAL>>>>
    /\ IsFinite(call.ret)
    /\ call.ret # Num(0)

Queries == {"discount_factor", "zero_rate", "forward_rate", "interpolate"}

\* what the query of the call returns on the curve c over the array objects hp
QueryResult(c, hp) ==
    CASE call.op = "discount_factor" ->
            DiscountCurve_discount_factor(c, hp, call.args[1]).ret
      [] call.op = "zero_rate" -> zero_rate(c, hp, call.args[1], call.args[2])
      [] call.op = "forward_rate" ->
            forward_rate(c, hp, call.args[1], call.args[2], call.args[3])
      [] call.op = "interpolate" -> Interpolator_call(c.interp_.interp_, hp, call.args[1])

\* C12: after construction, a call of discount_factor, zero_rate, forward_rate
\* or the interpolator's evaluation, returning or failing, leaves every field
\* of the curve, of its curve interpolator and of its interpolator, and their
\* arrays, as the constructor left them; so in any sequence of queries each
\* query returns what it returns on the curve as constructed, whatever
\* queries came before it and whether they failed.
C12_QueriesLeaveCurve ==
    (call.k = "call" /\ call.op \in Queries)
    => /\ curve = built.curve
       /\ heap = built.heap
       /\ call.exc = ExcOf(QueryResult(built.curve, built.heap))
       /\ call.ret = RetOf(QueryResult(built.curve, built.heap))

C12_Witness ==
    /\ IsCall("zero_rate")
    /\ call.exc = "ValueError"
    /\ curve.interp_.cls = "LinearDiscountCurveInterpolator"
    /\ curve = built.curve
    /\ heap = built.heap

\* what the call thread th has finished returns when it runs alone
AloneResult(th) ==
    IF threads.op[th] = "discount_factor"
    THEN DiscountCurve_discount_factor(built.curve, built.heap, threads.arg[th]).ret
    ELSE Interpolator_call(built.curve.interp_.interp_, built.heap, threads.arg[th])

\* C13: when several threads call discount_factor or the interpolator's
\* evaluation on one curve without locking, in any interleaving of their
\* statements, the curve and its arrays stay as constructed (no call writes
\* shared state) and every call that finishes returns the value it returns
\* when it runs alone.
C13_ThreadsAgree ==
    threads # NoThreads
    => /\ curve = built.curve
       /\ heap = built.heap
       /\ \A th \in Threads :
            threads.pc[th] = "done" => threads.ret[th] = AloneResult(th)

\* thread 1 has finished a query while thread 2 is in the middle of a query
\* of another time
C13_Witness ==
    /\ threads # NoThreads
    /\ threads.pc[1] = "done"
    /\ threads.op[1] = "discount_factor"
    /\ threads.arg[1] = Frac(3, 2)
    /\ IsFinite(threads.ret[1])
    /\ threads.pc[2] = "df"
    /\ threads.arg[2] = Num(MaxTime + 1)

\* the greatest and the least of a non-empty set of indices
MaxIndex(S) == CHOOSE m \in S : \A e \in S : e <= m
MinIndex(S) == CHOOSE m \in S : \A e \in S : m <= e

\* the knots of the spline the caller holds, and their number
Knots == heap[curve.x].a
NKnots == Len(Knots)

\* a query vector of finite values over at least two increasing knots, with a
\* row of coefficients for every segment
SplineQuery(op) ==
    /\ IsCall(op)
    /\ IsArr(call.args[1])
    /\ \A i \in 1..Len(call.args[1].a) : IsFinite(call.args[1].a[i])
    /\ NKnots >= 2
    /\ StrictlyIncreasing(Knots)
    /\ Len(curve.params) = NKnots - 1

\* theta[idx] . [1, dx, dx^2, dx^3] with dx = v - knot[idx]
SegmentValue(idx, v) ==
    Add(Add(Add(curve.params[idx + 1][1],
                Mul(curve.params[idx + 1][2], Sub(v, Knots[idx + 1]))),
            Mul(curve.params[idx + 1][3], Pow(Sub(v, Knots[idx + 1]), Num(2)))),
        Mul(curve.params[idx + 1][4], Pow(Sub(v, Knots[idx + 1]), Num(3))))

\* the greatest knot index whose maturity is <= v, the last segment for
\* queries at or above the last knot (knots and segments count from 0)
SegmentAtOrBelow(v) ==
    IF ~Less(v, Knots[NKnots]) THEN NKnots - 2
    ELSE MaxIndex({k \in 0..(NKnots - 1) : ~Less(v, Knots[k + 1])})

\* the greatest knot index whose maturity is < v, the first segment for
\* queries at or below the first knot and the last segment for queries above
\* the last knot
SegmentBelow(v) ==
    IF ~Less(Knots[1], v) THEN 0
    ELSE IF Less(Knots[NKnots], v) THEN NKnots - 2
    ELSE MaxIndex({k \in 0..(NKnots - 1) : Less(Knots[k + 1], v)})

\* C14 as stated: for every query x at or above the first knot, the segment
\* used is the greatest knot index whose maturity is <= x (a query exactly at
\* knot k uses segment k and dx = 0), the last segment for queries at or
\* above the last knot, and the value is theta[idx] . [1, dx, dx^2, dx^3]
\* with dx = x - knot[idx].
C14_SegmentAtOrBelow ==
    SplineQuery("SplineInterpolator.__call__")
    => /\ call.exc = NoExc
       /\ \A i \in 1..Len(call.args[1].a) :
            ~Less(call.args[1].a[i], Knots[1])
            => /\ call.trace[i] = SegmentAtOrBelow(call.args[1].a[i])
               /\ SameReal(call.ret.a[i],
                           SegmentValue(SegmentAtOrBelow(call.args[1].a[i]),
                                        call.args[1].a[i]))

\* C14 amended: the segment used is the greatest knot index whose maturity is
\* strictly below x (a query exactly at an interior knot k uses segment k - 1
\* and dx = knot[k] - knot[k-1]), segment 0 for queries at or below the first
\* knot and the last segment for queries above the last knot; the value is
\* theta[idx] . [1, dx, dx^2, dx^3] with dx = x - knot[idx].
C14_SegmentBelow ==
    SplineQuery("SplineInterpolator.__call__")
    => /\ call.exc = NoExc
       /\ \A i \in 1..Len(call.args[1].a) :
            /\ call.trace[i] = SegmentBelow(call.args[1].a[i])
            /\ SameReal(call.ret.a[i],
                        SegmentValue(SegmentBelow(call.args[1].a[i]), call.args[1].a[i]))

\* a query exactly at the interior knot 1 of the knots 0, 1, 2, on a spline
\* with a jump there: segment 0 is used, with dx = 1
C14_Witness ==
    /\ SplineQuery("SplineInterpolator.__call__")
    /\ Knots = <<Num(0), Num(1), Num(2)>>
    /\ call.args = <<Arr(<<Num(1)>>)>>
    /\ call.trace = <<0>>
    /\ curve.params[1] = SplineRow(1, 0, 1, 1)
    /\ call.ret = Arr(<<Num(3)>>)

RECURSIVE BisectLeft(_, _, _, _)
\* a binary search over the sorted knots xs for the least index (from 0) whose
\* knot is >= val, between lo and hi
BisectLeft(xs, val, lo, hi) ==
    IF lo >= hi THEN lo
    ELSE IF Less(xs[((lo + hi) \div 2) + 1], val)
         THEN BisectLeft(xs, val, ((lo + hi) \div 2) + 1, hi)
         ELSE BisectLeft(xs, val, lo, (lo + hi) \div 2)

\* the knot indices (from 0) whose knot is >= min(v, last knot)
KnotsAtOrAbove(v) ==
    {k \in 0..(NKnots - 1) : ~Less(Knots[k + 1], Minimum(v, Knots[NKnots]))}

PrecedingSegment(k) == IF k = 0 THEN 0 ELSE k - 1

\* C17: for every finite value v of a query vector over n >= 2 increasing
\* knots, index returns max(0, k - 1) with k the least knot index whose knot
\* is >= min(v, last knot); such a k exists, so the lookup does not fail; the
\* index lies in 0 .. n-2; and a binary search for k gives the same index.
C17_IndexContract ==
    SplineQuery("SplineInterpolator.index")
    => /\ call.exc = NoExc
       /\ Len(call.ret.a) = Len(call.args[1].a)
       /\ \A i \in 1..Len(call.args[1].a) :
            /\ KnotsAtOrAbove(call.args[1].a[i]) # {}
            /\ call.ret.a[i] =
                    Num(PrecedingSegment(MinIndex(KnotsAtOrAbove(call.args[1].a[i]))))
            /\ call.ret.a[i] \in {Num(j) : j \in 0..(NKnots - 2)}
            /\ call.ret.a[i] =
                    Num(PrecedingSegment(
                        BisectLeft(Knots, Minimum(call.args[1].a[i], Knots[NKnots]),
                                   0, NKnots)))

\* a query vector with a value between the first two knots, one beyond the
\* last knot and one at the first knot, over four knots
C17_Witness ==
    /\ SplineQuery("SplineInterpolator.index")
    /\ NKnots = 4
    /\ call.args = <<Arr(<<Frac(1, 2), Num(MaxTime + 1), Num(0)>>)>>
    /\ call.ret = Arr(<<Num(0), Num(2), Num(0)>>)

\* the discount factor of the rate r over the time t under the convention
\* comp: exp(-r t), 1 / (1 + r t), or 1 / (1 + r/m)^(t m)
RateAlgebraDiscount(t, r, comp) ==
    CASE comp = CONTINUOUS -> NpExp(NpNeg(NpMul(r, t)))
      [] comp = SIMPLE -> NpDiv(Num(1), NpAdd(Num(1), NpMul(r, t)))
      [] OTHER -> NpDiv(Num(1), NpPow(NpAdd(Num(1), NpDiv(r, Num(comp))),
                                      NpMul(t, Num(comp))))

\* C15: with no convention given, discount_factor(t, r) and
\* FlatCurve(rate=r).discount_factor(t) use continuous compounding and equal
\* exp(-r t); FlatCurve(rate, conv).discount_factor(t) equals the rate
\* algebra's discount_factor(t, rate, conv).
C15_FlatCurveDiscount ==
    /\ (IsCall("discount_factor(t, r[, comp])") /\ call.args[3] = <<>>)
       => /\ call.exc = NoExc
          /\ Same(call.ret, NpExp(NpNeg(NpMul(call.args[2], call.args[1]))))
    /\ (IsCall("FlatCurve") /\ call.args[2] = <<>>)
       => /\ call.ret.comp = CONTINUOUS
          /\ \A t \in CurveTimes :
                Same(Curve_discount_factor(call.ret, heap, t),
                     NpExp(NpNeg(NpMul(call.args[1], t))))
    /\ (IsCall("FlatCurve") /\ call.args[2] # <<>>)
       => /\ call.ret.rate = call.args[1]
          /\ call.ret.comp = call.args[2][1]
    /\ (IsCall("Curve.discount_factor") /\ call.frame.cls = "FlatCurve")
       => /\ call.exc = NoExc
          /\ Same(call.ret,
                  RateAlgebraDiscount(call.args[1], call.frame.rate, call.frame.comp))
          /\ Same(call.ret,
                  discount_factor(call.args[1], call.frame.rate, call.frame.comp))

\* the flat curve of the rate ln 2 discounts one year to 1/2
C15_Witness ==
    /\ IsCall("Curve.discount_factor")
    /\ call.frame.cls = "FlatCurve"
    /\ call.frame.rate = Log(Num(2))
    /\ call.frame.comp = CONTINUOUS
    /\ call.args = <<Num(1)>>
    /\ call.ret = Frac(1, 2)

RateCall == IsCall("implied_rate") \/ IsCall("capitalization")

\* the formulas of the conventions, for implied_rate(t, df, m) and
\* capitalization(t, r, m)
ContinuousFormula ==
    IF call.op = "implied_rate" THEN NpDiv(NpNeg(NpLog(call.args[2])), call.args[1])
    ELSE NpExp(NpMul(call.args[2], call.args[1]))
SimpleFormula ==
    IF call.op = "implied_rate"
    THEN NpDiv(NpSub(NpDiv(Num(1), call.args[2]), Num(1)), call.args[1])
    ELSE NpAdd(Num(1), NpMul(call.args[2], call.args[1]))
PeriodicFormula(m) ==
    IF call.op = "implied_rate"
    THEN NpMul(NpSub(NpPow(call.args[2], NpDiv(Num(-1), NpMul(call.args[1], Num(m)))),
                     Num(1)), Num(m))
    ELSE NpPow(NpAdd(Num(1), NpDiv(call.args[2], Num(m))), NpMul(call.args[1], Num(m)))

\* C16: implied_rate and capitalization dispatch the continuous and the
\* simple convention to their own formulas (exp(r t) and -ln(df)/t; 1 + r t
\* and (1/df - 1)/t), and evaluate the periodic formula only with m in
\* {1, 2, 4, 12}, never with m = 0 or m = -1.
C16_SentinelDispatch ==
    RateCall
    => /\ call.args[3] = CONTINUOUS
          => /\ call.trace = <<"continuous">>
             /\ call.exc = NoExc
             /\ Same(call.ret, ContinuousFormula)
       /\ call.args[3] = SIMPLE
          => /\ call.trace = <<"simple">>
             /\ call.exc = NoExc
             /\ Same(call.ret, SimpleFormula)
       /\ call.trace = <<"periodic">>
          => /\ call.args[3] \in {ANNUAL, SEMIANNUAL, QUARTERLY, MONTHLY}
             /\ call.args[3] \in {1, 2, 4, 12}
             /\ Same(call.ret, PeriodicFormula(call.args[3]))
       /\ call.trace \in {<<>>, <<"continuous">>, <<"simple">>, <<"periodic">>}

\* simple capitalization of the rate 12 over half a year is 7, where the
\* periodic formula with m = 0 gives (1 + 12/0)^0 = 1
C16_Witness ==
    /\ IsCall("capitalization")
    /\ call.args = <<Frac(1, 2), Num(12), SIMPLE>>
    /\ call.trace = <<"simple">>
    /\ call.ret = Num(7)
    /\ PeriodicFormula(0) = Num(1)

\* C18: once an interpolated curve has been built from the arrays maturities
\* and discounts, under any preset, a later write by the caller into those
\* same array objects changes the result of no discount_factor query: every
\* query returns what it returns on the knot values as they were at
\* construction.
C18_InputsDetached ==
    IsCall("discount_factor")
    => /\ call.exc = ExcOf(DiscountCurve_discount_factor(built.curve, built.heap,
                                                         call.args[1]).ret)
       /\ call.ret = RetOf(DiscountCurve_discount_factor(built.curve, built.heap,
                                                         call.args[1]).ret)
====
